---------------------------- MODULE Spec2Model ----------------------------
(***************************************************************************)
(* The subgraph -> Hyperindex query translator (src/src/conversion.rs).    *)
(* Texts are TLA+ strings; indices are 0-based as in the Rust code, and a  *)
(* Rust slice s[a..b] is Slice(s, a, b).  An Option<usize> that is None is *)
(* the index -1.  A HashMap<String, String> is a function whose domain is  *)
(* a finite set of strings; the order in which the code iterates a HashMap *)
(* is not fixed by the program (std's RandomState), so every operator that *)
(* depends on it yields the set of the results the orders can produce.     *)
(***************************************************************************)
EXTENDS Integers, Sequences, FiniteSets, TLC

VARIABLES payload, chain_id, pc, remaining, fragments, start_idx, open_idx,
          entities, converted_entities, result, previous, call, ret

vars == <<payload, chain_id, pc, remaining, fragments, start_idx, open_idx,
          entities, converted_entities, result, previous, call, ret>>

-----------------------------------------------------------------------------
(* Rust's str and char methods the translator uses.                        *)

Char(s, i) == SubSeq(s, i + 1, i + 1)

Slice(s, a, b) == SubSeq(s, a + 1, b)

SliceFrom(s, a) == SubSeq(s, a + 1, Len(s))

StartsWith(s, p) == Len(p) <= Len(s) /\ SubSeq(s, 1, Len(p)) = p

EndsWith(s, p) == Len(p) <= Len(s) /\ SubSeq(s, Len(s) - Len(p) + 1, Len(s)) = p

Indices(s) == 0 .. (Len(s) - 1)

MinOr(S, default) == IF S = {} THEN default ELSE CHOOSE x \in S : \A y \in S : x <= y

MaxOr(S, default) == IF S = {} THEN default ELSE CHOOSE x \in S : \A y \in S : x >= y

(* str::find and str::rfind: the first (last) index where p occurs, or -1. *)
Find(s, p) ==
    MinOr({i \in 0 .. (Len(s) - Len(p)) : Slice(s, i, i + Len(p)) = p}, -1)

RFind(s, p) ==
    MaxOr({i \in 0 .. (Len(s) - Len(p)) : Slice(s, i, i + Len(p)) = p}, -1)

Contains(s, p) == Find(s, p) >= 0

Lowercase == "abcdefghijklmnopqrstuvwxyz"

Uppercase == "ABCDEFGHIJKLMNOPQRSTUVWXYZ"

Digits == "0123456789"

CharsOf(s) == {Char(s, i) : i \in Indices(s)}

Whitespace == {" ", "\n", "\t", "\r"}

Alphabetic == CharsOf(Lowercase) \cup CharsOf(Uppercase)

Alphanumeric == Alphabetic \cup CharsOf(Digits)

IsWhitespace(c) == c \in Whitespace

IsAlphabetic(c) == c \in Alphabetic

IsAlphanumeric(c) == c \in Alphanumeric

(* The first index >= from whose character is not in C, or Len(s).         *)
SkipWhile(s, from, C) ==
    MinOr({i \in from .. (Len(s) - 1) : Char(s, i) \notin C}, Len(s))

TrimStartMatches(s, c) == SliceFrom(s, SkipWhile(s, 0, {c}))

TrimEndMatches(s, c) ==
    Slice(s, 0, MaxOr({i \in Indices(s) : Char(s, i) # c}, -1) + 1)

TrimMatches(s, c) == TrimEndMatches(TrimStartMatches(s, c), c)

TrimStart(s) == SliceFrom(s, SkipWhile(s, 0, Whitespace))

TrimEnd(s) ==
    Slice(s, 0, MaxOr({i \in Indices(s) : Char(s, i) \notin Whitespace}, -1) + 1)

Trim(s) == TrimEnd(TrimStart(s))

RECURSIVE Join(_, _)
Join(parts, sep) ==
    IF parts = <<>> THEN ""
    ELSE IF Len(parts) = 1 THEN parts[1]
    ELSE parts[1] \o sep \o Join(Tail(parts), sep)

(* A Rust `let x = value;` followed by Body(x): the value is computed once *)
(* and Body sees the computed value.                                       *)
Bind(value, Body(_)) == CHOOSE r \in {Body(x) : x \in {value}} : TRUE

(* Option<T>: None is the empty tuple, Some(x) the one-element tuple.      *)
None == <<>>

Some(x) == <<x>>

(* Result<String, ConversionError>.                                        *)
Ok(text) == [tag |-> "Ok", val |-> text]

InvalidQueryFormat == [tag |-> "InvalidQueryFormat", val |-> ""]

MissingField(name) == [tag |-> "MissingField", val |-> name]

UnsupportedFilter(path) == [tag |-> "UnsupportedFilter", val |-> path]

ComplexMetaQuery == [tag |-> "ComplexMetaQuery", val |-> ""]

NoResult == [tag |-> "None", val |-> ""]

(* HashMap<String, String>.                                                *)
EmptyMap == [k \in {} |-> ""]

Insert(m, k, v) == [x \in DOMAIN m \cup {k} |-> IF x = k THEN v ELSE m[x]]

Remove(m, k) == [x \in DOMAIN m \ {k} |-> m[x]]

(* Every order in which the elements of the finite set S can be visited.   *)
RECURSIVE Orders(_)
Orders(S) ==
    IF S = {} THEN {<<>>}
    ELSE UNION {{<<x>> \o o : o \in Orders(S \ {x})} : x \in S}

-----------------------------------------------------------------------------
(* Delimiter matching as the code does it: a depth counter over one pair   *)
(* of delimiters, at depth 1 at index pos (just after the opening one),    *)
(* blind to string literals.  The result is the index at which the counter *)
(* first returns to 0, or Len(s) when the text ends first.  The counter at *)
(* a closing delimiter c is 1 + (openers in pos..c) - (closers in pos..c). *)
MatchClose(s, pos, open, close) ==
    LET opens == {i \in pos .. (Len(s) - 1) : Char(s, i) = open}
        closes == {i \in pos .. (Len(s) - 1) : Char(s, i) = close}
    IN  MinOr({c \in closes : Cardinality({o \in opens : o < c}) + 1
                              = Cardinality({d \in closes : d <= c})}, Len(s))

(* sanitize_selection_set, the inner loop that drops one parenthesized     *)
(* argument list opened just before index from: quotes toggle              *)
(* in_args_string, parentheses outside a string move the depth.  The       *)
(* result is the index just after the closing parenthesis, or Len(s).      *)
SkipArguments(s, from) ==
    LET quotes == {i \in from .. (Len(s) - 1) : Char(s, i) = "\""}
        outside(i) == Cardinality({q \in quotes : q < i}) % 2 = 0
        opens == {i \in from .. (Len(s) - 1) : Char(s, i) = "(" /\ outside(i)}
        closes == {i \in from .. (Len(s) - 1) : Char(s, i) = ")" /\ outside(i)}
    IN  MinOr({c + 1 : c \in {c \in closes :
                   Cardinality({o \in opens : o < c}) + 1
                   = Cardinality({d \in closes : d <= c})}}, Len(s))

(* sanitize_selection_set from index i on, in_string being FALSE at i: the *)
(* text up to the next `(` outside a string literal is copied (quotes      *)
(* toggle in_string), the argument list is dropped, and in_string is       *)
(* unchanged by the dropped text.                                          *)
RECURSIVE SanitizeFrom(_, _)
SanitizeFrom(s, i) ==
    LET quotes == {q \in i .. (Len(s) - 1) : Char(s, q) = "\""}
        first_paren == MinOr({j \in i .. (Len(s) - 1) :
                                /\ Char(s, j) = "("
                                /\ Cardinality({q \in quotes : q < j}) % 2 = 0}, -1)
        Copy(paren) ==
            IF paren < 0 THEN SliceFrom(s, i)
            ELSE Slice(s, i, paren)
                 \o Bind(SkipArguments(s, paren + 1), LAMBDA after : SanitizeFrom(s, after))
    IN  Bind(first_paren, Copy)

sanitize_selection_set(input) == Bind(input, LAMBDA chars : SanitizeFrom(chars, 0))

(* sanitize_fragment_arguments that trims the body and keeps its argument  *)
(* lists.                                                                  *)
sanitize_fragment_keeping_arguments(fragment_text) ==
    LET open == Find(fragment_text, "{")
        pos == MatchClose(fragment_text, open + 1, "{", "}")
        Rebuild(body) ==
            Slice(fragment_text, 0, open + 1) \o body \o SliceFrom(fragment_text, pos)
    IN  IF open < 0 \/ pos >= Len(fragment_text) THEN fragment_text
        ELSE Bind(Bind(Slice(fragment_text, open + 1, pos), Trim), Rebuild)

sanitize_fragment_arguments(fragment_text) ==
    LET open == Find(fragment_text, "{")
        pos == MatchClose(fragment_text, open + 1, "{", "}")
        Rebuild(body) ==
            Slice(fragment_text, 0, open + 1) \o sanitize_selection_set(body)
            \o SliceFrom(fragment_text, pos)
    IN  IF open < 0 \/ pos >= Len(fragment_text) THEN fragment_text
        ELSE Bind(Bind(Slice(fragment_text, open + 1, pos), Trim), Rebuild)

complex_meta_patterns ==
    {"block { hash", "block { parentHash", "block { timestamp", "deployment",
     "hasIndexingErrors"}

(* convert_meta_query testing the simple pattern before the complex ones.  *)
convert_meta_query_simple_first(query) ==
    IF Contains(query, "_meta { block { number } }")
    THEN Ok("query {\n  chain_metadata {\n    latest_fetched_block_number\n  }\n}")
    ELSE IF \E pattern \in complex_meta_patterns : Contains(query, pattern)
    THEN ComplexMetaQuery
    ELSE IF Contains(query, "_meta") THEN ComplexMetaQuery
    ELSE InvalidQueryFormat

convert_meta_query(query) ==
    IF \E pattern \in complex_meta_patterns : Contains(query, pattern)
    THEN ComplexMetaQuery
    ELSE IF Contains(query, "_meta { block { number } }")
    THEN Ok("query {\n  chain_metadata {\n    latest_fetched_block_number\n  }\n}")
    ELSE IF Contains(query, "_meta") THEN ComplexMetaQuery
    ELSE InvalidQueryFormat

-----------------------------------------------------------------------------
(* Argument parser.                                                        *)

(* parse_graphql_params, the look-ahead after a newline at depth 0: does   *)
(* the rest of the text start (after whitespace) with an alphabetic        *)
(* character or `_`, followed by identifier characters and whitespace only *)
(* up to a colon?                                                          *)
StartsNewParam(rest) ==
    LET t == TrimStart(rest)
        stop == SkipWhile(t, 1, Alphanumeric \cup {"_"} \cup Whitespace)
    IN  /\ t # ""
        /\ IsAlphabetic(Char(t, 0)) \/ Char(t, 0) = "_"
        /\ stop < Len(t)
        /\ Char(t, stop) = ":"

(* parse_graphql_params, the state of its loop when it reads index i.      *)
(* escape_next holds at i when an odd number of backslashes, themselves    *)
(* not inside an escape, ends just before i.                               *)
EscapeNext(s, i) ==
    (i - 1 - MaxOr({j \in 0 .. (i - 1) : Char(s, j) # "\\"}, -1)) % 2 = 1

(* The quotes that toggle in_string: those not consumed by an escape.      *)
QuoteToggles(s) == {q \in Indices(s) : Char(s, q) = "\"" /\ ~EscapeNext(s, q)}

(* The indices the loop handles in its `if !in_string { match ch ... }`.   *)
Structural(s) ==
    LET toggles == QuoteToggles(s)
    IN  {i \in Indices(s) :
           /\ ~EscapeNext(s, i)
           /\ Char(s, i) \notin {"\\", "\""}
           /\ Cardinality({q \in toggles : q < i}) % 2 = 0}

(* Separators without the test of the brace and bracket counts.            *)
SeparatorsAtAnyDepth(s) ==
    LET structural == Structural(s)
    IN  {i \in structural :
           /\ Char(s, i) \in {",", "\n", "\r"}
           /\ Char(s, i) = "," \/ StartsNewParam(SliceFrom(s, i + 1))}

(* The indices at which the loop ends the current parameter: a comma, or a *)
(* newline followed by `identifier:`, at brace and bracket count 0.        *)
Separators(s) ==
    LET structural == Structural(s)
        count(i, c) == Cardinality({j \in structural : j < i /\ Char(s, j) = c})
    IN  {i \in structural :
           /\ Char(s, i) \in {",", "\n", "\r"}
           /\ count(i, "{") = count(i, "}")
           /\ count(i, "[") = count(i, "]")
           /\ Char(s, i) = "," \/ StartsNewParam(SliceFrom(s, i + 1))}

RECURSIVE parse_graphql_params(_, _)
RECURSIVE parse_single_param(_, _)
RECURSIVE ParseSegments(_, _, _, _)

(* Every entry of `nested` inserted into `params` under prefix \o its key. *)
InsertAll(params, nested, prefix) ==
    [x \in DOMAIN params \cup {prefix \o k : k \in DOMAIN nested} |->
        IF \E k \in DOMAIN nested : x = prefix \o k
        THEN nested[CHOOSE k \in DOMAIN nested : x = prefix \o k]
        ELSE params[x]]

(* parse_single_param without the special handling of `where`.             *)
parse_single_param_flattening_where(param_str, params) ==
    LET trimmed == Trim(param_str)
        idx == Find(trimmed, ":")
        key == Trim(Slice(trimmed, 0, idx))
        value == Trim(SliceFrom(trimmed, idx + 1))
        nested_params ==
            parse_graphql_params(Slice(value, 1, Len(value) - 1), EmptyMap)
    IN  IF idx < 0 THEN params
        ELSE IF StartsWith(value, "{") /\ EndsWith(value, "}")
             THEN InsertAll(params, nested_params, key \o ".")
        ELSE Insert(params, key, value)

(* parse_single_param that stores an object value as written under its    *)
(* key instead of flattening its entries into dotted paths.                *)
parse_single_param_keeping_objects(param_str, params) ==
    LET trimmed == Trim(param_str)
        idx == Find(trimmed, ":")
        key == Trim(Slice(trimmed, 0, idx))
        value == Trim(SliceFrom(trimmed, idx + 1))
        nested_params ==
            parse_graphql_params(Slice(value, 1, Len(value) - 1), EmptyMap)
    IN  IF idx < 0 THEN params
        ELSE IF key = "where" /\ StartsWith(value, "{") /\ EndsWith(value, "}")
             THEN InsertAll(params, nested_params, "")
        ELSE Insert(params, key, value)

parse_single_param(param_str, params) ==
    LET trimmed == Trim(param_str)
        idx == Find(trimmed, ":")
        key == Trim(Slice(trimmed, 0, idx))
        value == Trim(SliceFrom(trimmed, idx + 1))
        nested_params ==
            parse_graphql_params(Slice(value, 1, Len(value) - 1), EmptyMap)
    IN  IF idx < 0 THEN params
        ELSE IF key = "where" /\ StartsWith(value, "{") /\ EndsWith(value, "}")
             THEN InsertAll(params, nested_params, "")
        ELSE IF StartsWith(value, "{") /\ EndsWith(value, "}")
             THEN InsertAll(params, nested_params, key \o ".")
        ELSE Insert(params, key, value)

(* The loop of parse_graphql_params from index i on, current_param being   *)
(* empty (or whitespace) at i: current_param collects the text up to the   *)
(* next separator, or to the end, and goes to parse_single_param; a        *)
(* separator itself is not collected.                                      *)
ParseSegments(s, i, separators, params) ==
    LET sep == MinOr({j \in separators : j >= i}, Len(s))
        current_param == Slice(s, i, sep)
        parsed == IF Trim(current_param) # ""
                  THEN parse_single_param(current_param, params) ELSE params
    IN  IF sep >= Len(s) THEN parsed
        ELSE ParseSegments(s, sep + 1, separators, parsed)

parse_graphql_params(params_str, params) ==
    ParseSegments(params_str, 0, Separators(params_str), params)

-----------------------------------------------------------------------------
(* Field classifier.                                                       *)

NoFields == [nested_fields |-> {}, regular_fields |-> {}]

(* The result of extract_field_info_from_selection_recursive: the two field *)
(* sets, the map nested entity name -> its own two sets, and whether a     *)
(* slice with start > end aborted the call.                                *)
FieldInfo(nested, regular, info, panicked) ==
    [nested_fields |-> nested, regular_fields |-> regular,
     nested_entity_info |-> info, panicked |-> panicked]

(* A classifier that finds no field at all.                                *)
extract_no_field_info(selection) == FieldInfo({}, {}, EmptyMap, FALSE)

RECURSIVE extract_field_info_from_selection_recursive(_)
RECURSIVE ClassifyFrom(_, _, _)

(* The loop of the classifier at index i with current_field empty; acc is  *)
(* what it has collected.  A field name is the maximal run of identifier   *)
(* characters; what follows it decides: `{` (directly or after whitespace) *)
(* makes it a nested entity whose body runs to the matching `}`, anything  *)
(* else a regular field.                                                   *)
ClassifyFrom(chars, i, acc) ==
    LET j == SkipWhile(chars, i, Alphanumeric \cup {"_"})
        current_field == Slice(chars, i, j)
        k == IF j < Len(chars) /\ Char(chars, j) = "{" THEN j
             ELSE SkipWhile(chars, j + 1, Whitespace)
        close == MatchClose(chars, k + 1, "{", "}")
        after == IF close < Len(chars) THEN close + 1 ELSE Len(chars)
        nested_start == k + 1
        nested_end == after - 1
        inner == extract_field_info_from_selection_recursive(
                     Slice(chars, nested_start, nested_end))
        regular == [acc EXCEPT !.regular_fields = @ \cup {current_field}]
        nested == [acc EXCEPT
                     !.nested_fields = @ \cup {current_field},
                     !.nested_entity_info =
                         [x \in DOMAIN @ \cup {current_field} |->
                            IF x = current_field
                            THEN [nested_fields |-> inner.nested_fields,
                                  regular_fields |-> inner.regular_fields]
                            ELSE @[x]],
                     !.panicked = @ \/ inner.panicked]
        skip == MatchClose(chars, i + 1, "{", "}")
    IN  IF acc.panicked \/ i >= Len(chars) THEN acc
        ELSE IF j > i
        THEN IF j >= Len(chars) THEN regular
             ELSE IF (Char(chars, j) = "{" \/ IsWhitespace(Char(chars, j)))
                     /\ k < Len(chars) /\ Char(chars, k) = "{"
             THEN IF nested_start > nested_end
                  THEN [acc EXCEPT !.nested_fields = @ \cup {current_field},
                                   !.panicked = TRUE]
                  ELSE ClassifyFrom(chars, after, nested)
             ELSE ClassifyFrom(chars, j + 1, regular)
        ELSE IF IsWhitespace(Char(chars, i))
        THEN ClassifyFrom(chars, SkipWhile(chars, i, Whitespace), acc)
        ELSE IF Char(chars, i) = "{"
        THEN ClassifyFrom(chars, IF skip < Len(chars) THEN skip + 1 ELSE Len(chars),
                          acc)
        ELSE ClassifyFrom(chars, i + 1, acc)

extract_field_info_from_selection_recursive(selection) ==
    ClassifyFrom(
        Trim(TrimEndMatches(TrimStartMatches(Trim(selection), "{"), "}")),
        0, FieldInfo({}, {}, EmptyMap, FALSE))

-----------------------------------------------------------------------------
(* Filter compiler.                                                        *)

(* The chain of `if key.ends_with(suffix)` tests of                        *)
(* convert_basic_filter_to_hasura_condition, in the order of the code,     *)
(* each with the number of characters the code cuts off the key and the    *)
(* condition it formats: a pattern match (`_ilike`, negated or not, with   *)
(* `%` before and/or after the operand) or a comparison operator.          *)
Like(suffix, cut, negated, before, after) ==
    [suffix |-> suffix, cut |-> cut, like |-> TRUE, negated |-> negated,
     before |-> before, after |-> after, op |-> "_ilike"]

Compare(suffix, cut, op) ==
    [suffix |-> suffix, cut |-> cut, like |-> FALSE, negated |-> FALSE,
     before |-> "", after |-> "", op |-> op]

(* The chain with the test for `_in` moved to the front.                   *)
filter_suffix_chain_in_first ==
    << Compare("_in", 3, "_in"),
       Like("_not_starts_with_nocase", 23, TRUE, "", "%"),
       Like("_not_ends_with_nocase", 21, TRUE, "%", ""),
       Like("_not_contains_nocase", 20, TRUE, "%", "%"),
       Like("_starts_with_nocase", 19, FALSE, "", "%"),
       Like("_ends_with_nocase", 17, FALSE, "%", ""),
       Like("_contains_nocase", 16, FALSE, "%", "%"),
       Like("_not_starts_with", 16, TRUE, "", "%"),
       Like("_not_ends_with", 14, TRUE, "%", ""),
       Like("_not_contains", 13, TRUE, "%", "%"),
       Like("_starts_with", 12, FALSE, "", "%"),
       Like("_ends_with", 10, FALSE, "%", ""),
       Like("_contains", 9, FALSE, "%", "%"),
       Compare("_not_in", 7, "_nin"),
       Compare("_gte", 4, "_gte"),
       Compare("_lte", 4, "_lte"),
       Compare("_not", 4, "_neq"),
       Compare("_gt", 3, "_gt"),
       Compare("_lt", 3, "_lt") >>

filter_suffix_chain ==
    << Like("_not_starts_with_nocase", 23, TRUE, "", "%"),
       Like("_not_ends_with_nocase", 21, TRUE, "%", ""),
       Like("_not_contains_nocase", 20, TRUE, "%", "%"),
       Like("_starts_with_nocase", 19, FALSE, "", "%"),
       Like("_ends_with_nocase", 17, FALSE, "%", ""),
       Like("_contains_nocase", 16, FALSE, "%", "%"),
       Like("_not_starts_with", 16, TRUE, "", "%"),
       Like("_not_ends_with", 14, TRUE, "%", ""),
       Like("_not_contains", 13, TRUE, "%", "%"),
       Like("_starts_with", 12, FALSE, "", "%"),
       Like("_ends_with", 10, FALSE, "%", ""),
       Like("_contains", 9, FALSE, "%", "%"),
       Compare("_not_in", 7, "_nin"),
       Compare("_gte", 4, "_gte"),
       Compare("_lte", 4, "_lte"),
       Compare("_not", 4, "_neq"),
       Compare("_gt", 3, "_gt"),
       Compare("_lt", 3, "_lt"),
       Compare("_in", 3, "_in") >>

(* What one arm of the chain returns.                                      *)
FormatCondition(rule, key, value) ==
    LET field == Slice(key, 0, Len(key) - rule.cut)
        pattern == field \o ": {_ilike: \"" \o rule.before
                   \o TrimMatches(value, "\"") \o rule.after \o "\"}"
    IN  IF rule.like
        THEN IF rule.negated THEN "_not: {" \o pattern \o "}" ELSE pattern
        ELSE field \o ": {" \o rule.op \o ": " \o value \o "}"

(* convert_basic_filter_to_hasura_condition without the both_sets_empty    *)
(* test: every field absent from both sets becomes a reference.            *)
convert_basic_filter_without_empty_test(key, value, nested_entity_fields, regular_fields) ==
    LET matching == {n \in 1 .. Len(filter_suffix_chain) :
                       EndsWith(key, filter_suffix_chain[n].suffix)}
        trimmed_value == Trim(value)
        is_simple_scalar == /\ ~StartsWith(trimmed_value, "{")
                            /\ ~StartsWith(trimmed_value, "[")
                            /\ ~StartsWith(TrimStart(trimmed_value), "$")
    IN  IF key = "where" THEN Ok("")
        ELSE IF matching # {}
        THEN Ok(FormatCondition(filter_suffix_chain[MinOr(matching, 0)], key, value))
        ELSE IF EndsWith(key, "_containsAny") \/ EndsWith(key, "_containsAll")
        THEN UnsupportedFilter(key)
        ELSE IF key = "chainId" THEN Ok(key \o ": {_eq: " \o value \o "}")
        ELSE IF is_simple_scalar /\ key \notin regular_fields
        THEN Ok(key \o ": {id: {_eq: " \o value \o "}}")
        ELSE Ok(key \o ": {_eq: " \o value \o "}")

convert_basic_filter_to_hasura_condition(key, value, nested_entity_fields, regular_fields) ==
    LET matching == {n \in 1 .. Len(filter_suffix_chain) :
                       EndsWith(key, filter_suffix_chain[n].suffix)}
        trimmed_value == Trim(value)
        is_simple_scalar == /\ ~StartsWith(trimmed_value, "{")
                            /\ ~StartsWith(trimmed_value, "[")
                            /\ ~StartsWith(TrimStart(trimmed_value), "$")
        is_nested_from_selection == key \in nested_entity_fields
        is_regular_from_selection == key \in regular_fields
        both_sets_empty == nested_entity_fields = {} /\ regular_fields = {}
    IN  IF key = "where" THEN Ok("")
        ELSE IF matching # {}
        THEN Ok(FormatCondition(filter_suffix_chain[MinOr(matching, 0)], key, value))
        ELSE IF EndsWith(key, "_containsAny") \/ EndsWith(key, "_containsAll")
        THEN UnsupportedFilter(key)
        ELSE IF key = "chainId" THEN Ok(key \o ": {_eq: " \o value \o "}")
        ELSE IF /\ is_simple_scalar
                /\ \/ is_nested_from_selection
                   \/ /\ ~both_sets_empty
                      /\ ~is_regular_from_selection
                      /\ ~is_nested_from_selection
        THEN Ok(key \o ": {id: {_eq: " \o value \o "}}")
        ELSE Ok(key \o ": {_eq: " \o value \o "}")

-----------------------------------------------------------------------------
(* Where-clause assembly.                                                  *)

(* The characters of argument names in byte order, for str::cmp.           *)
Ascii == Digits \o Uppercase \o "_" \o Lowercase

CharCode(c) == Find(Ascii, c)

StrLess(a, b) ==
    LET shorter == IF Len(a) < Len(b) THEN Len(a) ELSE Len(b)
        diff == MinOr({i \in 0 .. (shorter - 1) : Char(a, i) # Char(b, i)}, shorter)
    IN  IF diff = shorter THEN Len(a) < Len(b)
        ELSE CharCode(Char(a, diff)) < CharCode(Char(b, diff))

(* The comparator of sorted_keys.sort_by: chainId first, then a.cmp(b).    *)
KeyLess(a, b) ==
    IF a = "chainId" THEN TRUE ELSE IF b = "chainId" THEN FALSE ELSE StrLess(a, b)

RECURSIVE SortKeys(_)
SortKeys(S) ==
    IF S = {} THEN <<>>
    ELSE LET first == CHOOSE x \in S : \A y \in S \ {x} : KeyLess(x, y)
         IN  <<first>> \o SortKeys(S \ {first})

(* The base field name the filters are grouped by: the key up to its first *)
(* underscore.                                                             *)
BaseField(key) ==
    IF Find(key, "_") >= 0 THEN Slice(key, 0, Find(key, "_")) ELSE key

RECURSIVE Concat(_)
Concat(seqs) == IF seqs = <<>> THEN <<>> ELSE Head(seqs) \o Concat(Tail(seqs))

(* Every sequence that takes its n-th element from the n-th set of sets.   *)
RECURSIVE Choices(_)
Choices(sets) ==
    IF sets = <<>> THEN {<<>>}
    ELSE {<<x>> \o rest : x \in Head(sets), rest \in Choices(Tail(sets))}

(* The grouping loops of convert_filters_to_where_clause and               *)
(* process_nested_filters_recursive.  filters is the map being compiled,   *)
(* group_order the order in which the groups are visited, visit_order the  *)
(* order in which the map was iterated (the order of each group's Vec).    *)
(* The result is the sequence of the calls of                              *)
(* convert_basic_filter_to_hasura_condition in the order the code makes    *)
(* them, each with whether its group has several conditions.               *)
GroupedCalls(filters, group_order, visit_order, nested_entity_fields, regular_fields) ==
    LET group(g) == SelectSeq(visit_order, LAMBDA k : BaseField(k) = g)
        calls(g) ==
            [n \in 1 .. Len(group(g)) |->
               [several |-> Len(group(g)) > 1,
                condition |-> convert_basic_filter_to_hasura_condition(
                                  group(g)[n], filters[group(g)[n]],
                                  nested_entity_fields, regular_fields)]]
    IN  Concat([n \in 1 .. Len(group_order) |-> calls(group_order[n])])

(* A grouping loop that pushes every condition as a key of its own.        *)
PushedConditionsAsSiblings(calls) ==
    [n \in 1 .. Len(calls) |-> calls[n].condition.val]

(* The conditions a grouping loop pushes: those of the groups of one, in   *)
(* order, then one `_and: [..]` holding those of the other groups.         *)
PushedConditions(calls) ==
    LET single == SelectSeq(calls, LAMBDA c : ~c.several)
        several == SelectSeq(calls, LAMBDA c : c.several)
        and_conditions ==
            [n \in 1 .. Len(several) |-> "{" \o several[n].condition.val \o "}"]
    IN  [n \in 1 .. Len(single) |-> single[n].condition.val]
        \o (IF several = <<>> THEN <<>>
            ELSE << "_and: [" \o Join(and_conditions, ", ") \o "]" >>)

(* The first error of a sequence of results (the `?` operator), if any.    *)
FirstError(results) ==
    LET failed == {n \in 1 .. Len(results) : results[n].tag # "Ok"}
    IN  IF failed = {} THEN NoResult ELSE results[MinOr(failed, 0)]

RECURSIVE process_nested_filters_recursive(_, _, _)
process_nested_filters_recursive(parent, child_filters, nested_entity_info) ==
    LET dot_idx == Find(parent, ".")
        first_part == Slice(parent, 0, dot_idx)
        rest == SliceFrom(parent, dot_idx + 1)
        wrap(rest_condition) ==
            LET colon_idx == Find(rest_condition, ":")
                inner_condition ==
                    IF colon_idx >= 0 THEN Trim(SliceFrom(rest_condition, colon_idx + 1))
                    ELSE "{" \o rest_condition \o "}"
            IN  first_part \o ": {" \o rest \o ": " \o inner_condition \o "}"
        parent_fields ==
            IF parent \in DOMAIN nested_entity_info THEN nested_entity_info[parent]
            ELSE NoFields
        groups == {BaseField(k) : k \in DOMAIN child_filters}
        outcome(group_order, visit_order) ==
            LET calls == GroupedCalls(child_filters, group_order, visit_order,
                                      parent_fields.nested_fields,
                                      parent_fields.regular_fields)
                results == [n \in 1 .. Len(calls) |-> calls[n].condition]
            IN  IF FirstError(results) # NoResult THEN FirstError(results)
                ELSE Ok(parent \o ": {" \o Join(PushedConditions(calls), ", ") \o "}")
    IN  IF dot_idx >= 0
        THEN {IF r.tag = "Ok" THEN Ok(wrap(r.val)) ELSE r :
                r \in process_nested_filters_recursive(rest, child_filters,
                                                       nested_entity_info)}
        ELSE {outcome(group_order, visit_order) :
                group_order \in Orders(groups),
                visit_order \in Orders(DOMAIN child_filters)}

parse_nested_where_clause(where_value) ==
    parse_graphql_params(
        TrimEndMatches(TrimStartMatches(Trim(where_value), "{"), "}"), EmptyMap)

(* flatten_where_map: the entries of a `where` value are spliced in when   *)
(* the drain reaches `where`, so for a key on both sides the survivor      *)
(* depends on the drain order: `first` are the colliding keys drained      *)
(* before `where`.                                                         *)
RECURSIVE flatten_where_map(_)
flatten_where_map(map) ==
    IF "where" \notin DOMAIN map THEN {map}
    ELSE LET others == Remove(map, "where")
         IN  {[x \in DOMAIN others \cup DOMAIN nested |->
                 IF x \in DOMAIN nested /\ (x \notin DOMAIN others \/ x \in first)
                 THEN nested[x] ELSE others[x]] :
                nested \in flatten_where_map(parse_nested_where_clause(map["where"])),
                first \in SUBSET (DOMAIN others)}

reserved_arguments == {"first", "skip", "orderBy", "orderDirection", "where"}

(* convert_filters_to_where_clause on the flattened map, for one order of  *)
(* iteration of flat_filters and one sequence of results of the nested     *)
(* groups (in the order grouped_filters is iterated).                      *)
WhereOf(flat_filters, visit_order, nested_results, nested_entity_fields, regular_fields) ==
    LET basic == SelectSeq(visit_order, LAMBDA k : Find(k, ".") < 0)
        sorted_keys == SortKeys({BaseField(basic[n]) : n \in 1 .. Len(basic)})
        calls == GroupedCalls(flat_filters, sorted_keys, basic,
                              nested_entity_fields, regular_fields)
        results == [n \in 1 .. Len(calls) |-> calls[n].condition] \o nested_results
        where_conditions ==
            PushedConditions(calls)
            \o [n \in 1 .. Len(nested_results) |-> nested_results[n].val]
    IN  IF FirstError(results) # NoResult THEN FirstError(results)
        ELSE IF where_conditions = <<>> THEN Ok("")
        ELSE Ok("where: {" \o Join(where_conditions, ", ") \o "}")

convert_filters_to_where_clause(params, nested_entity_fields, regular_fields, nested_entity_info) ==
    UNION {
      LET flat_filters == [k \in DOMAIN flat \ reserved_arguments |-> flat[k]]
          dotted == {k \in DOMAIN flat_filters : Find(k, ".") >= 0}
          parent_of(k) == Slice(k, 0, RFind(k, "."))
          child_filters(parent) ==
              [c \in {SliceFrom(k, RFind(k, ".") + 1) :
                        k \in {d \in dotted : parent_of(d) = parent}} |->
                 flat_filters[parent \o "." \o c]]
      IN  UNION {
            {WhereOf(flat_filters, visit_order, nested_results,
                     nested_entity_fields, regular_fields) :
               nested_results \in Choices(
                   [n \in 1 .. Len(parent_order) |->
                      process_nested_filters_recursive(
                          parent_order[n], child_filters(parent_order[n]),
                          nested_entity_info)])} :
            visit_order \in Orders(DOMAIN flat_filters),
            parent_order \in Orders({parent_of(k) : k \in dotted})}
      : flat \in flatten_where_map(params)}

-----------------------------------------------------------------------------
(* Query assembler.                                                        *)

(* The call aborted: a slice whose start is beyond its end.                *)
Panic == [tag |-> "Panic", val |-> ""]

UpperChar(c) ==
    IF Contains(Lowercase, c) THEN Char(Uppercase, Find(Lowercase, c)) ELSE c

LowerChar(c) ==
    IF Contains(Uppercase, c) THEN Char(Lowercase, Find(Uppercase, c)) ELSE c

ToLowercase(s) == Join([n \in 1 .. Len(s) |-> LowerChar(Char(s, n - 1))], "")

UppercaseFirst(s) == IF s = "" THEN "" ELSE UpperChar(Char(s, 0)) \o SliceFrom(s, 1)

irregulars == [tranches |-> "tranche"]

(* singularize_and_capitalize trying the trailing `s` before the longer    *)
(* endings.                                                                *)
singularize_dropping_s_first(s) ==
    LET lower == ToLowercase(s)
        singular ==
            IF EndsWith(s, "s") /\ Len(s) > 1
            THEN Slice(s, 0, Len(s) - 1)
            ELSE IF EndsWith(s, "ies") /\ Len(s) > 3
            THEN Slice(s, 0, Len(s) - 3) \o "y"
            ELSE IF \E suffix \in {"ches", "shes", "xes", "zes", "sses", "oes", "ses"} :
                       EndsWith(s, suffix)
            THEN Slice(s, 0, Len(s) - 2)
            ELSE s
    IN  IF lower \in DOMAIN irregulars THEN UppercaseFirst(irregulars[lower])
        ELSE UppercaseFirst(singular)

singularize_and_capitalize(s) ==
    LET lower == ToLowercase(s)
        singular ==
            IF EndsWith(s, "ies") /\ Len(s) > 3
            THEN Slice(s, 0, Len(s) - 3) \o "y"
            ELSE IF \E suffix \in {"ches", "shes", "xes", "zes", "sses", "oes", "ses"} :
                       EndsWith(s, suffix)
            THEN Slice(s, 0, Len(s) - 2)
            ELSE IF EndsWith(s, "s") /\ Len(s) > 1
            THEN Slice(s, 0, Len(s) - 1)
            ELSE s
    IN  IF lower \in DOMAIN irregulars THEN UppercaseFirst(irregulars[lower])
        ELSE UppercaseFirst(singular)

(* Entity extractor.                                                       *)
stop_list ==
    {"id", "in", "on", "to", "of", "at", "by", "is", "it", "as", "or", "an", "if",
     "up", "do", "go", "no", "so", "we", "he", "me", "be", "my", "am", "us", "hi",
     "lo", "ok"}

(* One iteration of the `while current_pos < query_chars.len()` loop of    *)
(* extract_multiple_entities per call, from current_pos on; `found` holds  *)
(* the triples pushed so far.                                              *)
RECURSIVE ExtractFrom(_, _, _)
ExtractFrom(query_chars, current_pos, found) ==
    LET entity_start == SkipWhile(query_chars, current_pos, Whitespace)
        name_end == SkipWhile(query_chars, entity_start, Alphanumeric)
        entity_name == Slice(query_chars, entity_start, name_end)
        after_name == SkipWhile(query_chars, name_end, Whitespace)
        has_params == after_name < Len(query_chars) /\ Char(query_chars, after_name) = "("
        params_end == MatchClose(query_chars, after_name + 1, "(", ")")
        params == IF has_params
                  THEN parse_graphql_params(
                           Slice(query_chars, after_name + 1, params_end), EmptyMap)
                  ELSE EmptyMap
        brace == SkipWhile(query_chars, IF has_params THEN params_end + 1 ELSE after_name,
                           Whitespace)
        selection_end == MatchClose(query_chars, brace + 1, "{", "}")
        selection_set ==
            "{\n    "
            \o sanitize_selection_set(Trim(Slice(query_chars, brace + 1, selection_end)))
            \o "\n  }"
    IN  IF entity_start >= Len(query_chars) THEN found
        ELSE IF name_end = entity_start
        THEN ExtractFrom(query_chars, entity_start + 1, found)
        ELSE IF Len(entity_name) < 2 \/ entity_name \in stop_list
        THEN ExtractFrom(query_chars, name_end + 1, found)
        ELSE IF has_params /\ params_end >= Len(query_chars) THEN found
        ELSE IF ~has_params
                /\ ~(after_name < Len(query_chars) /\ Char(query_chars, after_name) = "{")
        THEN ExtractFrom(query_chars, after_name + 1, found)
        ELSE IF brace >= Len(query_chars) \/ Char(query_chars, brace) # "{"
        THEN ExtractFrom(query_chars, brace + 1, found)
        ELSE IF selection_end >= Len(query_chars) THEN found
        ELSE ExtractFrom(query_chars, selection_end,
                         Append(found, [name |-> entity_name, params |-> params,
                                           selection |-> selection_set]))

extract_multiple_entities(query) ==
    LET start == SkipWhile(query, 0, Whitespace)
    IN  ExtractFrom(query,
                    IF start < Len(query) /\ Char(query, start) = "{"
                    THEN start + 1 ELSE start,
                    <<>>)

(* convert_main_query, the body of its loop: what one entity becomes.      *)
IsVariable(v) == StartsWith(TrimStart(v), "$")

(* ConvertEntity with the chain id inserted before the primary-key test.   *)
ConvertEntityChainIdFirst(entity, chain_id_arg) ==
    LET params == entity.params
        entity_cap == singularize_and_capitalize(entity.name)
        literal(name) ==
            IF name \in DOMAIN params /\ ~IsVariable(params[name])
            THEN Some(params[name]) ELSE None
        limit == literal("first")
        offset == literal("skip")
        converted_params ==
            IF chain_id_arg # None
            THEN Insert(params, "chainId", "\"" \o chain_id_arg[1] \o "\"")
            ELSE params
        fields == extract_field_info_from_selection_recursive(entity.selection)
        order_dir == IF "orderDirection" \in DOMAIN params
                     THEN params["orderDirection"] ELSE "asc"
        order_by ==
            IF /\ "orderBy" \in DOMAIN params
               /\ ~IsVariable(params["orderBy"])
               /\ ~IsVariable(order_dir)
            THEN << "order_by: {" \o params["orderBy"] \o ": " \o order_dir \o "}" >>
            ELSE <<>>
        emit(where_clause) ==
            LET params_vec ==
                    (IF limit # None THEN << "limit: " \o limit[1] >> ELSE <<>>)
                    \o (IF offset # None THEN << "offset: " \o offset[1] >> ELSE <<>>)
                    \o order_by
                    \o (IF where_clause # "" THEN <<where_clause>> ELSE <<>>)
                params_str == IF params_vec = <<>> THEN ""
                              ELSE "(" \o Join(params_vec, ", ") \o ")"
            IN  "  " \o entity_cap \o params_str \o " " \o entity.selection
    IN  IF ~EndsWith(entity.name, "s") /\ DOMAIN converted_params = {"id"}
        THEN {Ok("  " \o entity.name \o "_by_pk(id: " \o params["id"] \o ") "
                 \o entity.selection)}
        ELSE IF fields.panicked THEN {Panic}
        ELSE {IF w.tag = "Ok" THEN Ok(emit(w.val)) ELSE w :
                w \in convert_filters_to_where_clause(
                          converted_params, fields.nested_fields,
                          fields.regular_fields, fields.nested_entity_info)}

(* ConvertEntity with the chain id inserted only when the query has no     *)
(* chainId argument of its own.                                            *)
ConvertEntityKeepsChainId(entity, chain_id_arg) ==
    LET params == entity.params
        entity_cap == singularize_and_capitalize(entity.name)
        literal(name) ==
            IF name \in DOMAIN params /\ ~IsVariable(params[name])
            THEN Some(params[name]) ELSE None
        limit == literal("first")
        offset == literal("skip")
        converted_params ==
            IF chain_id_arg # None /\ "chainId" \notin DOMAIN params
            THEN Insert(params, "chainId", "\"" \o chain_id_arg[1] \o "\"")
            ELSE params
        fields == extract_field_info_from_selection_recursive(entity.selection)
        order_dir == IF "orderDirection" \in DOMAIN params
                     THEN params["orderDirection"] ELSE "asc"
        order_by ==
            IF /\ "orderBy" \in DOMAIN params
               /\ ~IsVariable(params["orderBy"])
               /\ ~IsVariable(order_dir)
            THEN << "order_by: {" \o params["orderBy"] \o ": " \o order_dir \o "}" >>
            ELSE <<>>
        emit(where_clause) ==
            LET params_vec ==
                    (IF limit # None THEN << "limit: " \o limit[1] >> ELSE <<>>)
                    \o (IF offset # None THEN << "offset: " \o offset[1] >> ELSE <<>>)
                    \o order_by
                    \o (IF where_clause # "" THEN <<where_clause>> ELSE <<>>)
                params_str == IF params_vec = <<>> THEN ""
                              ELSE "(" \o Join(params_vec, ", ") \o ")"
            IN  "  " \o entity_cap \o params_str \o " " \o entity.selection
    IN  IF ~EndsWith(entity.name, "s") /\ DOMAIN params = {"id"}
        THEN {Ok("  " \o entity.name \o "_by_pk(id: " \o params["id"] \o ") "
                 \o entity.selection)}
        ELSE IF fields.panicked THEN {Panic}
        ELSE {IF w.tag = "Ok" THEN Ok(emit(w.val)) ELSE w :
                w \in convert_filters_to_where_clause(
                          converted_params, fields.nested_fields,
                          fields.regular_fields, fields.nested_entity_info)}

(* convert_main_query, the body of its loop, pushing the where clause     *)
(* before limit, offset and order_by.                                      *)
ConvertEntityWhereFirst(entity, chain_id_arg) ==
    LET params == entity.params
        entity_cap == singularize_and_capitalize(entity.name)
        literal(name) ==
            IF name \in DOMAIN params /\ ~IsVariable(params[name])
            THEN Some(params[name]) ELSE None
        limit == literal("first")
        offset == literal("skip")
        converted_params ==
            IF chain_id_arg # None
            THEN Insert(params, "chainId", "\"" \o chain_id_arg[1] \o "\"")
            ELSE params
        fields == extract_field_info_from_selection_recursive(entity.selection)
        order_dir == IF "orderDirection" \in DOMAIN params
                     THEN params["orderDirection"] ELSE "asc"
        order_by ==
            IF /\ "orderBy" \in DOMAIN params
               /\ ~IsVariable(params["orderBy"])
               /\ ~IsVariable(order_dir)
            THEN << "order_by: {" \o params["orderBy"] \o ": " \o order_dir \o "}" >>
            ELSE <<>>
        emit(where_clause) ==
            LET params_vec ==
                    (IF where_clause # "" THEN <<where_clause>> ELSE <<>>)
                    \o (IF limit # None THEN << "limit: " \o limit[1] >> ELSE <<>>)
                    \o (IF offset # None THEN << "offset: " \o offset[1] >> ELSE <<>>)
                    \o order_by
                params_str == IF params_vec = <<>> THEN ""
                              ELSE "(" \o Join(params_vec, ", ") \o ")"
            IN  "  " \o entity_cap \o params_str \o " " \o entity.selection
    IN  IF ~EndsWith(entity.name, "s") /\ DOMAIN params = {"id"}
        THEN {Ok("  " \o entity.name \o "_by_pk(id: " \o params["id"] \o ") "
                 \o entity.selection)}
        ELSE IF fields.panicked THEN {Panic}
        ELSE {IF w.tag = "Ok" THEN Ok(emit(w.val)) ELSE w :
                w \in convert_filters_to_where_clause(
                          converted_params, fields.nested_fields,
                          fields.regular_fields, fields.nested_entity_info)}

ConvertEntity(entity, chain_id_arg) ==
    LET params == entity.params
        entity_cap == singularize_and_capitalize(entity.name)
        literal(name) ==
            IF name \in DOMAIN params /\ ~IsVariable(params[name])
            THEN Some(params[name]) ELSE None
        limit == literal("first")
        offset == literal("skip")
        converted_params ==
            IF chain_id_arg # None
            THEN Insert(params, "chainId", "\"" \o chain_id_arg[1] \o "\"")
            ELSE params
        fields == extract_field_info_from_selection_recursive(entity.selection)
        order_dir == IF "orderDirection" \in DOMAIN params
                     THEN params["orderDirection"] ELSE "asc"
        order_by ==
            IF /\ "orderBy" \in DOMAIN params
               /\ ~IsVariable(params["orderBy"])
               /\ ~IsVariable(order_dir)
            THEN << "order_by: {" \o params["orderBy"] \o ": " \o order_dir \o "}" >>
            ELSE <<>>
        emit(where_clause) ==
            LET params_vec ==
                    (IF limit # None THEN << "limit: " \o limit[1] >> ELSE <<>>)
                    \o (IF offset # None THEN << "offset: " \o offset[1] >> ELSE <<>>)
                    \o order_by
                    \o (IF where_clause # "" THEN <<where_clause>> ELSE <<>>)
                params_str == IF params_vec = <<>> THEN ""
                              ELSE "(" \o Join(params_vec, ", ") \o ")"
            IN  "  " \o entity_cap \o params_str \o " " \o entity.selection
    IN  IF ~EndsWith(entity.name, "s") /\ DOMAIN params = {"id"}
        THEN {Ok("  " \o entity.name \o "_by_pk(id: " \o params["id"] \o ") "
                 \o entity.selection)}
        ELSE IF fields.panicked THEN {Panic}
        ELSE {IF w.tag = "Ok" THEN Ok(emit(w.val)) ELSE w :
                w \in convert_filters_to_where_clause(
                          converted_params, fields.nested_fields,
                          fields.regular_fields, fields.nested_entity_info)}

(* convert_main_query that skips an entity it cannot convert and returns   *)
(* the text of the others.                                                 *)
convert_main_query_skipping_failures(main_query, chain_id_arg) ==
    LET content == Trim(main_query)
        start_brace == Find(content, "{")
        end_brace == RFind(content, "}")
        strip == StartsWith(content, "query") /\ start_brace >= 0 /\ end_brace >= 0
        stripped_query == IF strip THEN Slice(content, start_brace + 1, end_brace)
                          ELSE main_query
        extracted == extract_multiple_entities(stripped_query)
        pushed(converted) ==
            LET ok == SelectSeq(converted, LAMBDA r : r.tag = "Ok")
            IN  [n \in 1 .. Len(ok) |-> ok[n].val]
    IN  IF strip /\ start_brace + 1 > end_brace
        THEN {[result |-> Panic, entities |-> <<>>, converted_entities |-> <<>>]}
        ELSE {[result |-> Ok("query {\n" \o Join(pushed(converted), "\n") \o "\n}"),
               entities |-> extracted,
               converted_entities |-> pushed(converted)] :
                converted \in Choices([n \in 1 .. Len(extracted) |->
                                         ConvertEntity(extracted[n], chain_id_arg)])}

(* convert_main_query: its result, with the triples it extracted and the   *)
(* texts it had pushed on converted_entities when it returned.             *)
convert_main_query(main_query, chain_id_arg) ==
    LET content == Trim(main_query)
        start_brace == Find(content, "{")
        end_brace == RFind(content, "}")
        strip == StartsWith(content, "query") /\ start_brace >= 0 /\ end_brace >= 0
        stripped_query == IF strip THEN Slice(content, start_brace + 1, end_brace)
                          ELSE main_query
        extracted == extract_multiple_entities(stripped_query)
        pushed(converted) ==
            LET failed == {n \in 1 .. Len(converted) : converted[n].tag # "Ok"}
            IN  [n \in 1 .. MinOr(failed, Len(converted) + 1) - 1 |-> converted[n].val]
    IN  IF strip /\ start_brace + 1 > end_brace
        THEN {[result |-> Panic, entities |-> <<>>, converted_entities |-> <<>>]}
        ELSE {[result |-> IF FirstError(converted) # NoResult
                          THEN FirstError(converted)
                          ELSE Ok("query {\n" \o Join(pushed(converted), "\n") \o "\n}"),
               entities |-> extracted,
               converted_entities |-> pushed(converted)] :
                converted \in Choices([n \in 1 .. Len(extracted) |->
                                         ConvertEntity(extracted[n], chain_id_arg)])}

-----------------------------------------------------------------------------
(* The inputs: request payloads whose `query` member is assembled from     *)
(* entity invocations, argument lists and selection sets.                  *)

MaxFilters == 2

MaxEntities == 2

Range(seq) == {seq[n] : n \in 1 .. Len(seq)}

FilterArguments ==
    << "id: \"1\"", "chainId: \"5\"", "amount_gt: 1", "amount_lte: 5",
       "name_contains: \"x\"", "pair: \"0\"", "pair: {name: \"x\"}",
       "token: {symbol: \"y\"}", "first: 10" >>

(* The argument lists of at most MaxFilters arguments, in the order above. *)
ArgumentLists ==
    {Join(SelectSeq(FilterArguments, LAMBDA a : a \in chosen), ", ") :
       chosen \in {c \in SUBSET Range(FilterArguments) : Cardinality(c) <= MaxFilters}}

Invocation(name, arguments, selection) ==
    name \o (IF arguments = "" THEN "" ELSE "(" \o arguments \o ")")
    \o " { " \o selection \o " }"

Operation(invocations) == "query { " \o Join(invocations, " ") \o " }"

SingleEntityQueries ==
    {Operation(<<Invocation(name, arguments, selection)>>) :
       name \in {"streams", "stream"},
       arguments \in ArgumentLists,
       selection \in {"id name", "id pair { id }"}}

RECURSIVE SeqsUpTo(_, _)
SeqsUpTo(S, n) ==
    IF n = 0 THEN {<<>>}
    ELSE SeqsUpTo(S, n - 1)
         \cup {Append(seq, x) : seq \in {q \in SeqsUpTo(S, n - 1) : Len(q) = n - 1},
                                x \in S}

(* Top-level fields with a selection set, each with its name.              *)
TopLevelFields ==
    {[name |-> "streams", text |-> "streams { id }"],
     [name |-> "stream", text |-> "stream(id: \"1\") { id }"],
     [name |-> "users", text |-> "users(first: 5, name_not: \"x\") { id }"],
     [name |-> "assets", text |-> "assets(tags_containsAny: [1]) { id }"],
     [name |-> "me", text |-> "me { id }"],
     [name |-> "pool_days", text |-> "pool_days(first: 3) { id }"]}

FieldLists == {seq \in SeqsUpTo(TopLevelFields, MaxEntities) : Len(seq) >= 2}

FieldTexts(fields) == [n \in 1 .. Len(fields) |-> fields[n].text]

MultiEntityQueries == {Operation(FieldTexts(fields)) : fields \in FieldLists}

FragmentQueries ==
    {"fragment F on Stream { id items(first: 5) { id } } query { streams { ...F } }",
     "query Q { streams(first: 1) { ...F } } fragment F on Stream { id name }",
     "fragment F on Stream { id } fragment G on User { name } { users { ...G } }",
     "query { users { ...G } } fragment G on User { id posts (first: 5) }",
     "fragment F on Stream {id} query { streams(first: 1) { ...F } }",
     "query { streams { id } } fragment F on Stream { id",
     "fragment F on Stream { id { name } query { streams { ...F } }",
     "query { streams { id } } fragment F on Stream"}

UnbalancedQueries ==
    {"query { streams(first: 10 { id } }",
     "query { streams(first: 10) { id name",
     "{ streams { id pair { id }",
     "query { users { id } streams(where: {name: \"x\"} { id } }"}

(* Queries with the pagination and ordering arguments, as literals and as  *)
(* variables, in every order.                                              *)
PaginationArguments ==
    << "first: 10", "skip: 5", "orderBy: name", "orderDirection: desc",
       "first: $first", "orderBy: $orderBy", "orderDirection: $dir",
       "where: {name: \"x\"}" >>

PaginationLists ==
    UNION {{Join(order, ", ") : order \in Orders(chosen)} :
             chosen \in {c \in SUBSET Range(PaginationArguments) :
                           Cardinality(c) <= MaxFilters}}
    \cup {"where: {name: \"x\"}, orderDirection: desc, orderBy: name, skip: 5, first: 10",
          "orderDirection: $dir, orderBy: name, skip: $skip, first: $first",
          "orderBy: name, skip: 10, where: {name_contains: \"113\"}"}

PaginationQueries ==
    {Operation(<<Invocation("streams", arguments, "id name")>>) :
       arguments \in PaginationLists}

(* String literals that hold a delimiter, as the value of an argument.     *)
DelimiterStrings == {"\")\"", "\"}\"", "\"(\"", "\"{\"", "\"]\"", "\"a, b\""}

DelimiterStringQueries ==
    {Operation(<<Invocation("streams", "name: " \o value, "id name")>>) :
       value \in DelimiterStrings}

(* Queries with the complete names of their top-level fields; other       *)
(* identifiers stand in argument lists and selection sets.                 *)
ScopedQueries ==
    {[query |-> "query { users(where: {posts: {id: 1}}) { id posts(first: 1) { id } } }",
      top_level |-> {"users"}],
     [query |-> "query { me { posts { id } } }", top_level |-> {"me"}],
     [query |-> "query { x(first: 1) { tokens(first: 2) { id } } }", top_level |-> {"x"}],
     [query |-> "query { pool_days(first: 3) { id } }", top_level |-> {"pool_days"}],
     [query |-> "query { users { id } me { posts { id } } }", top_level |-> {"users", "me"}]}

(* Queries with an empty nested selection, and one whose first `{` comes   *)
(* after its last `}`.                                                     *)
EmptySelectionQueries ==
    {"query { streams { id pair {} } }",
     "query { streams { id pair { token {} } } }",
     "query { streams(first: 1) { pair { id token { } } } }",
     "query { stream(id: \"1\") { pair { token {} } } }",
     "query } {"}

(* Operations with variable definitions whose arguments are variable       *)
(* references.                                                             *)
VariableQueries ==
    {"query Q($n: Int, $o: String, $d: String) { streams(first: $n, skip: $n, orderBy: $o, orderDirection: $d) { id } }",
     "query Q($v: String) { streams(where: {name: $v}) { id name } }",
     "query Q($min: Int, $n: Int) { streams(amount_gt: $min, first: $n) { id } }",
     "query Q($p: String) { streams(pair: {name_contains: $p}) { id pair { id name } } }",
     "query Q($id: ID!) { stream(id: $id) { id name } }"}

MetaQueries ==
    {"{ _meta { block { number } } }", "{ _meta { block { hash } } }",
     "{ _meta { deployment } }", "{ _meta { hasIndexingErrors } }",
     "query { _meta { block { hash number } } }",
     "{ _meta { block { parentHash } } }", "{ _meta { block { timestamp } } }",
     "{ _meta { block { number timestamp } } }", "{ _meta { block{number} } }",
     "query { _meta { block { number } } streams(first: 5) { id } }",
     "query { _meta { block { number } } deployments { id } }",
     "query { streams(name: \"_meta\") { id } }"}

Queries ==
    SingleEntityQueries \cup MultiEntityQueries \cup FragmentQueries
    \cup UnbalancedQueries \cup MetaQueries \cup PaginationQueries
    \cup DelimiterStringQueries \cup {scoped.query : scoped \in ScopedQueries}
    \cup EmptySelectionQueries \cup VariableQueries

Payloads ==
    {[has_query |-> TRUE, is_string |-> TRUE, query |-> q] : q \in Queries}
    \cup {[has_query |-> TRUE, is_string |-> FALSE, query |-> ""],
          [has_query |-> FALSE, is_string |-> FALSE, query |-> ""]}

ChainIds == {None, Some("1")}

-----------------------------------------------------------------------------
(* One call of convert_subgraph_to_hyperindex(payload, chain_id), followed *)
(* step by step; `result` is the result of convert_query_structure, `ret`  *)
(* what the call returns, and `previous` keeps the result of an earlier    *)
(* call with the same arguments.                                           *)

NoCall == [fn |-> "none"]

(* A response object that carries a second member next to `query`.         *)
RespondWithVariables(converted_query) ==
    IF converted_query.tag # "Ok" THEN converted_query
    ELSE [tag |-> "Ok", val |-> [query |-> converted_query.val, variables |-> ""]]

(* convert_subgraph_to_hyperindex, its last statements: `?` passes an      *)
(* error of convert_query_structure on; the converted text is returned as  *)
(* the JSON object {"query": converted_query}, a record here.              *)
Respond(converted_query) ==
    IF converted_query.tag # "Ok" THEN converted_query
    ELSE [tag |-> "Ok", val |-> [query |-> converted_query.val]]

Init ==
    /\ payload \in Payloads
    /\ chain_id \in ChainIds
    /\ pc = "start"
    /\ remaining = ""
    /\ fragments = ""
    /\ start_idx = -1
    /\ open_idx = -1
    /\ entities = <<>>
    /\ converted_entities = <<>>
    /\ result = NoResult
    /\ previous = NoResult
    /\ call = NoCall
    /\ ret = NoResult

(* convert_subgraph_to_hyperindex up to the fragment loop: the payload     *)
(* checks and the `_meta` shortcut of convert_query_structure.             *)
Start ==
    /\ pc = "start"
    /\ IF ~payload.has_query
       THEN /\ result' = MissingField("query")
            /\ ret' = MissingField("query")
            /\ pc' = "done"
            /\ UNCHANGED remaining
       ELSE IF ~payload.is_string
       THEN /\ result' = InvalidQueryFormat
            /\ ret' = InvalidQueryFormat
            /\ pc' = "done"
            /\ UNCHANGED remaining
       ELSE IF Contains(payload.query, "_meta")
       THEN /\ result' = convert_meta_query(payload.query)
            /\ ret' = Respond(convert_meta_query(payload.query))
            /\ pc' = "done"
            /\ UNCHANGED remaining
       ELSE /\ remaining' = payload.query
            /\ pc' = "frag_find"
            /\ UNCHANGED <<result, ret>>
    /\ fragments' = ""
    /\ entities' = <<>>
    /\ converted_entities' = <<>>
    /\ UNCHANGED <<payload, chain_id, start_idx, open_idx, previous, call>>

(* extract_fragments_and_main_query, the head of its loop: look for the    *)
(* next `fragment ` and the `{` after it; leave the loop when either is    *)
(* missing.                                                                *)
FragmentFind ==
    /\ pc = "frag_find"
    /\ LET start == Find(remaining, "fragment ")
           open_rel == Find(SliceFrom(remaining, start), "{")
       IN  IF start >= 0 /\ open_rel >= 0
           THEN /\ start_idx' = start
                /\ open_idx' = start + open_rel
                /\ pc' = "frag_walk"
           ELSE /\ pc' = "convert_main"
                /\ UNCHANGED <<start_idx, open_idx>>
    /\ UNCHANGED <<payload, chain_id, remaining, fragments, entities,
                   converted_entities, result, previous, call, ret>>

(* The walk to the matching `}`: when it is found the fragment is moved    *)
(* from `remaining` to `fragments`; either way the loop continues.         *)
FragmentWalk ==
    /\ pc = "frag_walk"
    /\ \E pos \in {MatchClose(remaining, open_idx + 1, "{", "}")} :
          IF pos < Len(remaining)
          THEN /\ \E fragment_text \in
                     {Bind(Slice(remaining, start_idx, pos + 1),
                           sanitize_fragment_arguments)} :
                     fragments' = (IF fragments # "" THEN fragments \o "\n" ELSE "")
                                  \o Trim(fragment_text)
               /\ remaining' = TrimEnd(Slice(remaining, 0, start_idx))
                               \o SliceFrom(remaining, pos + 1)
          ELSE UNCHANGED <<fragments, remaining>>
    /\ pc' = "frag_find"
    /\ UNCHANGED <<payload, chain_id, start_idx, open_idx, entities,
                   converted_entities, result, previous, call, ret>>

(* The rest of convert_query_structure: the main query is converted and    *)
(* the fragments are put before it.                                        *)
ConvertMain ==
    /\ pc = "convert_main"
    /\ \E main \in convert_main_query(Trim(remaining), chain_id) :
          /\ entities' = main.entities
          /\ converted_entities' = main.converted_entities
          /\ result' = IF main.result.tag = "Ok"
                       THEN Ok((IF fragments # "" THEN fragments \o "\n" ELSE "")
                               \o main.result.val)
                       ELSE main.result
    /\ ret' = Respond(result')
    /\ pc' = "done"
    /\ UNCHANGED <<payload, chain_id, remaining, fragments, start_idx, open_idx,
                   previous, call>>

(* The caller calls again with the same payload and chain id.              *)
CallAgain ==
    /\ pc = "done"
    /\ previous = NoResult
    /\ previous' = result
    /\ result' = NoResult
    /\ ret' = NoResult
    /\ pc' = "start"
    /\ UNCHANGED <<payload, chain_id, remaining, fragments, start_idx, open_idx,
                   entities, converted_entities, call>>

Next == Start \/ FragmentFind \/ FragmentWalk \/ ConvertMain \/ CallAgain

Spec == Init /\ [][Next]_vars

-----------------------------------------------------------------------------
(* One call of extract_fragments_and_main_query(query) on its own: the     *)
(* loop steps are FragmentFind and FragmentWalk above, and the function    *)
(* returns the pair (fragments, remaining.trim()) when the loop is left.   *)

Idle ==
    /\ payload = [has_query |-> FALSE, is_string |-> FALSE, query |-> ""]
    /\ chain_id = None
    /\ entities = <<>>
    /\ converted_entities = <<>>
    /\ result = NoResult
    /\ previous = NoResult

UnitUnchanged ==
    UNCHANGED <<payload, chain_id, remaining, fragments, start_idx, open_idx,
                entities, converted_entities, result, previous, call>>

SplitterInit ==
    /\ Idle
    /\ \E query \in Queries :
          /\ call = [fn |-> "extract_fragments_and_main_query", query |-> query]
          /\ remaining = query
    /\ fragments = ""
    /\ start_idx = -1
    /\ open_idx = -1
    /\ pc = "frag_find"
    /\ ret = NoResult

SplitterReturn ==
    /\ pc = "convert_main"
    /\ call # NoCall
    /\ ret' = [tag |-> "Ok", val |-> <<fragments, Trim(remaining)>>]
    /\ pc' = "returned"
    /\ UNCHANGED <<payload, chain_id, remaining, fragments, start_idx, open_idx,
                   entities, converted_entities, result, previous, call>>

SplitterNext == FragmentFind \/ FragmentWalk \/ SplitterReturn

SplitterSpec == SplitterInit /\ [][SplitterNext]_vars

(* The function runs to its end: each step is taken when it is enabled.    *)
FairSplitterSpec ==
    /\ SplitterSpec
    /\ WF_vars(FragmentFind) /\ WF_vars(FragmentWalk) /\ WF_vars(SplitterReturn)

-----------------------------------------------------------------------------
(* One call of convert_basic_filter_to_hasura_condition, with the field    *)
(* sets convert_main_query gets from the entity's selection set.  A        *)
(* selection is written from a list of items, each a field name with the   *)
(* body of its nested selection (empty for a scalar field).                *)

MaxSelected == 2

SelectionItems ==
    {[name |-> "id", body |-> ""], [name |-> "name", body |-> ""],
     [name |-> "token", body |-> ""], [name |-> "chainId", body |-> ""],
     [name |-> "pair", body |-> "id"], [name |-> "token", body |-> "id symbol"],
     [name |-> "pair", body |-> "id token { id }"],
     [name |-> "chainId", body |-> "id"]}

(* The selection text as extract_multiple_entities hands it on.            *)
SelectionText(items) ==
    "{\n    " \o Join([n \in 1 .. Len(items) |->
                         items[n].name
                         \o (IF items[n].body = "" THEN ""
                             ELSE " { " \o items[n].body \o " }")], " ")
    \o "\n  }"

SelectionLists ==
    {items \in SeqsUpTo(SelectionItems, MaxSelected) :
       \A m, n \in 1 .. Len(items) : m # n => items[m].name # items[n].name}

FilterFields == {"name", "pair", "token", "is_not", "chainId"}

FilterSuffixes ==
    {filter_suffix_chain[n].suffix : n \in 1 .. Len(filter_suffix_chain)}
    \cup {"", "_containsAny", "_containsAll"}

FilterValues == {"\"0\"", "5", "[1, 2]", "{a: 1}", "$v", " $v"}

FilterInit ==
    /\ Idle
    /\ remaining = ""
    /\ fragments = ""
    /\ start_idx = -1
    /\ open_idx = -1
    /\ \E field \in FilterFields, suffix \in FilterSuffixes, value \in FilterValues,
          items \in SelectionLists :
          call = [fn |-> "convert_basic_filter_to_hasura_condition",
                  key |-> field \o suffix, value |-> value,
                  items |-> items, selection |-> SelectionText(items)]
    /\ pc = "filter_call"
    /\ ret = NoResult

ConvertBasicFilter ==
    /\ pc = "filter_call"
    /\ LET info == extract_field_info_from_selection_recursive(call.selection)
       IN  ret' = convert_basic_filter_to_hasura_condition(
                     call.key, call.value, info.nested_fields, info.regular_fields)
    /\ pc' = "returned"
    /\ UnitUnchanged

FilterNext == ConvertBasicFilter

FilterSpec == FilterInit /\ [][FilterNext]_vars

-----------------------------------------------------------------------------
(* The arguments of one entity, parsed by parse_graphql_params and         *)
(* compiled by convert_filters_to_where_clause with the field sets of the  *)
(* entity's selection set, as convert_main_query does.  The filters are    *)
(* given as direct arguments or wrapped in `where: {..}`.                  *)

MaxDepth == 4

WhereArguments ==
    << "amount_gt: 1", "amount_lte: 5", "amount_not: 3", "name_contains: \"x\"",
       "name_not_contains: \"y\"", "pair: {name_contains: \"x\", name_not: \"y\"}",
       "pair: {id_gt: 1}", "token: {pair: {id_gt: 1, id_lt: 9}}", "first: 10",
       "chainId: \"5\"" >>

WhereFilterLists ==
    {Join(SelectSeq(WhereArguments, LAMBDA a : a \in chosen), ", ") :
       chosen \in {c \in SUBSET Range(WhereArguments) : Cardinality(c) <= MaxFilters}}

Segments == <<"a", "b", "c", "e", "f", "g">>

Leaves ==
    {[text |-> "d_gt: 3", condition |-> "d: {_gt: 3}"],
     [text |-> "d_in: [1, 2]", condition |-> "d: {_in: [1, 2]}"]}

(* Argument lists with a filter of the unsupported `_containsAny` and      *)
(* `_containsAll` family, at the top level or inside an object filter.     *)
UnsupportedFilterLists ==
    {"tags_containsAny: [\"tag1\", \"tag2\"]", "tags_containsAll: [1]",
     "name_contains: \"x\", tags_containsAny: [1, 2]",
     "asset: {tags_containsAny: [\"tag1\"]}",
     "asset: {id_gt: 1, tags_containsAll: [1, 2]}",
     "asset: {owner: {tags_containsAny: [1]}}"}

(* Argument lists with several conditions on one base field next to       *)
(* conditions on other base fields, on chainId among them.                 *)
OrderingFilterLists ==
    {"name_contains: \"x\", amount_gt: 1, amount_lte: 5",
     "name_contains: \"x\", chainId: \"5\", chainId_gt: 1",
     "zeta_gt: 1, chainId: \"5\", amount_gt: 1",
     "token: {symbol: \"y\"}, pair: {id_gt: 1}, amount_gt: 1"}

(* Argument lists whose filters meet in one object of the where clause.   *)
SiblingFilterLists ==
    {"name_not_contains: \"x\", title_not_contains: \"y\"",
     "pair: \"0\", pair: {name: \"x\"}",
     "pair: {x: 1, token: {y: 2}}",
     "name_contains: \"x\", pair: {id_gt: 1, id_lt: 9, name_not_contains: \"y\"}"}

(* Filters on a field two levels down, with selection sets that select    *)
(* the field's parent `token` inside `pair`, and in some cases a top-level *)
(* `token` as well; selected_as tells how the inner `token` selects the    *)
(* field.                                                                  *)
DeepFilterCases ==
    {[parents |-> <<"pair", "token">>, field |-> "amount", value |-> "\"0\"",
      selected_as |-> "scalar",
      items |-> <<[name |-> "id", body |-> ""],
                  [name |-> "pair", body |-> "token { id amount }"]>>],
     [parents |-> <<"pair", "token">>, field |-> "amount", value |-> "\"0\"",
      selected_as |-> "scalar",
      items |-> <<[name |-> "id", body |-> ""], [name |-> "token", body |-> "id"],
                  [name |-> "pair", body |-> "token { id amount }"]>>],
     [parents |-> <<"pair", "token">>, field |-> "owner", value |-> "\"0\"",
      selected_as |-> "nested",
      items |-> <<[name |-> "id", body |-> ""],
                  [name |-> "pair", body |-> "token { id owner { id } }"]>>],
     [parents |-> <<"pair", "token">>, field |-> "owner", value |-> "\"0\"",
      selected_as |-> "nested",
      items |-> <<[name |-> "id", body |-> ""],
                  [name |-> "token", body |-> "id owner { id }"],
                  [name |-> "pair", body |-> "token { id owner { id } }"]>>]}

RECURSIVE NestedArgument(_, _)
NestedArgument(path, leaf) ==
    IF path = <<>> THEN leaf
    ELSE Head(path) \o ": {" \o NestedArgument(Tail(path), leaf) \o "}"

WhereCalls ==
    {[fn |-> "convert_filters_to_where_clause", form |-> form, filters |-> filters,
      arguments |-> IF form = "where" THEN "where: {" \o filters \o "}" ELSE filters,
      path |-> <<>>, leaf |-> "",
      items |-> <<[name |-> "id", body |-> ""], [name |-> "pair", body |-> "id name"]>>] :
       form \in {"direct", "where"}, filters \in WhereFilterLists}
    \cup
    {[fn |-> "convert_filters_to_where_clause", form |-> form,
      filters |-> NestedArgument(SubSeq(Segments, 1, n - 1), leaf.text),
      arguments |-> IF form = "where"
                    THEN "where: {" \o NestedArgument(SubSeq(Segments, 1, n - 1), leaf.text)
                         \o "}"
                    ELSE NestedArgument(SubSeq(Segments, 1, n - 1), leaf.text),
      path |-> SubSeq(Segments, 1, n - 1), leaf |-> leaf.condition,
      items |-> <<[name |-> "id", body |-> ""]>>] :
       form \in {"direct", "where"}, n \in 2 .. MaxDepth, leaf \in Leaves}
    \cup
    {[fn |-> "convert_filters_to_where_clause", form |-> form, filters |-> filters,
      arguments |-> IF form = "where" THEN "where: {" \o filters \o "}" ELSE filters,
      path |-> <<>>, leaf |-> "",
      items |-> <<[name |-> "id", body |-> ""], [name |-> "asset", body |-> "id"]>>] :
       form \in {"direct", "where"}, filters \in UnsupportedFilterLists}
    \cup
    {[fn |-> "convert_filters_to_where_clause", form |-> form, filters |-> filters,
      arguments |-> IF form = "where" THEN "where: {" \o filters \o "}" ELSE filters,
      path |-> <<>>, leaf |-> "",
      items |-> <<[name |-> "id", body |-> ""], [name |-> "pair", body |-> "id name"]>>] :
       form \in {"direct", "where"},
       filters \in OrderingFilterLists \cup SiblingFilterLists}
    \cup
    {[fn |-> "convert_filters_to_where_clause", form |-> "deep",
      filters |-> NestedArgument(c.parents, c.field \o ": " \o c.value),
      arguments |-> NestedArgument(c.parents, c.field \o ": " \o c.value),
      path |-> <<>>, leaf |-> "", items |-> c.items, parents |-> c.parents,
      field |-> c.field, value |-> c.value, selected_as |-> c.selected_as] :
       c \in DeepFilterCases}

WhereInit ==
    /\ Idle
    /\ remaining = ""
    /\ fragments = ""
    /\ start_idx = -1
    /\ open_idx = -1
    /\ call \in WhereCalls
    /\ pc = "where_call"
    /\ ret = NoResult

ParseArguments ==
    /\ pc = "where_call"
    /\ ret' = [params |-> parse_graphql_params(call.arguments, EmptyMap),
               where_clause |-> NoResult]
    /\ pc' = "parsed"
    /\ UnitUnchanged

CompileWhere ==
    /\ pc = "parsed"
    /\ LET info == extract_field_info_from_selection_recursive(SelectionText(call.items))
       IN  \E where_clause \in convert_filters_to_where_clause(
                                  ret.params, info.nested_fields, info.regular_fields,
                                  info.nested_entity_info) :
              ret' = [ret EXCEPT !.where_clause = where_clause]
    /\ pc' = "returned"
    /\ UnitUnchanged

WhereNext == ParseArguments \/ CompileWhere

WhereSpec == WhereInit /\ [][WhereNext]_vars

-----------------------------------------------------------------------------
(* The names: an entity name of the request becomes a field name of the    *)
(* translated query (convert_main_query), the downstream response carries  *)
(* that field name as a key of its `data` object, and main.rs maps the key *)
(* back (transform_response_to_subgraph_shape).                            *)

(* str::trim_end_matches with a string pattern: the pattern is removed     *)
(* from the end as often as it occurs there.                               *)
RECURSIVE TrimEndMatchesStr(_, _)
TrimEndMatchesStr(s, p) ==
    IF p # "" /\ EndsWith(s, p) THEN TrimEndMatchesStr(Slice(s, 0, Len(s) - Len(p)), p)
    ELSE s

is_pascal_case(s) ==
    /\ s # ""
    /\ Char(s, 0) \in CharsOf(Uppercase)
    /\ \A i \in 1 .. (Len(s) - 1) : Char(s, i) \in Alphabetic

pluralize_lowercase(name) ==
    LET lower == ToLowercase(name)
        pre == IF Len(lower) >= 2 THEN Char(lower, Len(lower) - 2) ELSE "a"
    IN  IF EndsWith(lower, "y") /\ pre \notin {"a", "e", "i", "o", "u"}
        THEN Slice(lower, 0, Len(lower) - 1) \o "ies"
        ELSE IF \E ending \in {"ch", "sh", "x", "z", "s", "o"} : EndsWith(lower, ending)
        THEN lower \o "es"
        ELSE lower \o "s"

(* transform_response_to_subgraph_shape, the key it gives one member of    *)
(* `data`.                                                                 *)
TransformedKey(key) ==
    IF EndsWith(key, "_by_pk") THEN ToLowercase(TrimEndMatchesStr(key, "_by_pk"))
    ELSE IF is_pascal_case(key) THEN pluralize_lowercase(key)
    ELSE key

(* convert_main_query, the field name it emits for an entity: the name     *)
(* with `_by_pk` for a primary-key lookup, else the singularized,          *)
(* capitalized name.                                                       *)
EmittedName(entity_name, primary_key) ==
    IF primary_key THEN entity_name \o "_by_pk"
    ELSE singularize_and_capitalize(entity_name)

(* Entity names the extractor accepts: alphanumeric, 2 characters or more, *)
(* not on its list of short words.                                         *)
EntityNames ==
    {"streams", "users", "stream", "user", "batches", "tranches", "Tranches",
     "TRANCHES", "tranche", "companies", "stories", "ies", "dishes", "boxes",
     "quizzes", "addresses", "heroes", "houses", "statuses", "photos", "prices",
     "days", "keys", "assets", "actions", "tokens", "batch", "asset", "action",
     "liquidityPools", "streamActions", "poolDay", "Streams", "token0s",
     "class", "bus", "xs", "ss", "fish", "data"}

NamingInit ==
    /\ Idle
    /\ remaining = ""
    /\ fragments = ""
    /\ start_idx = -1
    /\ open_idx = -1
    /\ \E entity \in EntityNames, primary_key \in BOOLEAN :
          /\ primary_key => ~EndsWith(entity, "s")
          /\ call = [fn |-> "convert_main_query", entity |-> entity,
                     primary_key |-> primary_key]
    /\ pc = "naming_call"
    /\ ret = NoResult

(* The translator emits the field name for the entity.                     *)
EmitName ==
    /\ pc = "naming_call"
    /\ ret' = [entity_cap |-> singularize_and_capitalize(call.entity),
               field |-> EmittedName(call.entity, call.primary_key),
               new_key |-> ""]
    /\ pc' = "emitted"
    /\ UnitUnchanged

(* The response keyed by that field name is reshaped.                      *)
TransformResponse ==
    /\ pc = "emitted"
    /\ ret' = [ret EXCEPT !.new_key = TransformedKey(ret.field)]
    /\ pc' = "reshaped"
    /\ UnitUnchanged

NamingNext == EmitName \/ TransformResponse

NamingSpec == NamingInit /\ [][NamingNext]_vars

-----------------------------------------------------------------------------
(* Properties of a call of convert_subgraph_to_hyperindex.                 *)

Occurrences(s, p) ==
    Cardinality({i \in 0 .. (Len(s) - Len(p)) : Slice(s, i, i + Len(p)) = p})

(* The text has an opening delimiter that is never closed.                 *)
HasUnclosedDelimiter(text) ==
    \/ Occurrences(text, "(") > Occurrences(text, ")")
    \/ Occurrences(text, "{") > Occurrences(text, "}")

IsPrimaryKeyLookup(entity) ==
    ~EndsWith(entity.name, "s") /\ DOMAIN entity.params = {"id"}

(* C1: extract_fragments_and_main_query terminates on every query text,    *)
(* also when a `fragment ` token has an opening `{` that is never closed:  *)
(* every call of it eventually returns.                                    *)
C1_SplitterReturns == <>(pc = "returned")

(* C2: a query text with an argument list `(` or a selection set `{` that  *)
(* is not closed fails with InvalidQueryFormat: no call on such a text     *)
(* returns anything else.                                                  *)
C2_UnbalancedIsRejected ==
    (pc = "done" /\ payload.is_string /\ HasUnclosedDelimiter(payload.query))
    => result = InvalidQueryFormat

(* C5: translation is a function of (query text, chain id): a second call  *)
(* with the same arguments returns the same result as the first.           *)
C5_SameInputSameOutput ==
    (pc = "done" /\ previous # NoResult) => result = previous

(* C6: an entity whose name does not end in `s` and whose argument map is  *)
(* exactly {id: v} is emitted as `<name>_by_pk(id: v) <selection>`, the    *)
(* name unchanged, with no where, chainId, limit, offset or order_by,      *)
(* whether or not a chain id was supplied.                                 *)
C6_PrimaryKeyLookup ==
    pc = "done" =>
      \A n \in 1 .. Len(converted_entities) :
         IsPrimaryKeyLookup(entities[n]) =>
           /\ converted_entities[n]
                = "  " \o entities[n].name \o "_by_pk(id: " \o entities[n].params["id"]
                  \o ") " \o entities[n].selection
           /\ \A word \in {"where", "chainId", "limit", "offset", "order_by"} :
                 ~Contains(converted_entities[n], word)

C6_Witness ==
    /\ pc = "done"
    /\ chain_id # None
    /\ \E n \in 1 .. Len(converted_entities) : IsPrimaryKeyLookup(entities[n])

(* C7: with a chain id c, every entity that is not a primary-key lookup is *)
(* emitted with a where clause holding exactly one chainId equality, and   *)
(* it is `chainId: {_eq: "c"}` (also for an entity without arguments and   *)
(* for one whose query has a chainId filter of its own); without a chain   *)
(* id the only chainId equality is the one the query wrote itself.         *)
C7_ChainIdInjected ==
    pc = "done" =>
      \A n \in 1 .. Len(converted_entities) :
         ~IsPrimaryKeyLookup(entities[n]) =>
           IF chain_id # None
           THEN /\ Contains(converted_entities[n], "where: {")
                /\ Occurrences(converted_entities[n], "chainId: {_eq: ") = 1
                /\ Contains(converted_entities[n],
                            "chainId: {_eq: \"" \o chain_id[1] \o "\"}")
           ELSE Occurrences(converted_entities[n], "chainId: {_eq: ")
                = (IF "chainId" \in DOMAIN entities[n].params THEN 1 ELSE 0)

C7_Witness ==
    /\ pc = "done"
    /\ chain_id # None
    /\ \E n \in 1 .. Len(converted_entities) :
          /\ "chainId" \in DOMAIN entities[n].params
          /\ ~IsPrimaryKeyLookup(entities[n])

-----------------------------------------------------------------------------
(* Properties of a call of convert_basic_filter_to_hasura_condition.       *)

(* The table of supported operator suffixes: the condition each one gives  *)
(* for a field and a value.                                                *)
SupportedSuffixes ==
    {"_not_starts_with_nocase", "_not_ends_with_nocase", "_not_contains_nocase",
     "_starts_with_nocase", "_ends_with_nocase", "_contains_nocase",
     "_not_starts_with", "_not_ends_with", "_not_contains",
     "_starts_with", "_ends_with", "_contains",
     "_not_in", "_gte", "_lte", "_gt", "_lt", "_not", "_in"}

Unquoted(v) ==
    IF Len(v) >= 2 /\ StartsWith(v, "\"") /\ EndsWith(v, "\"")
    THEN Slice(v, 1, Len(v) - 1) ELSE v

TableCondition(suffix, f, v) ==
    LET starts == f \o ": {_ilike: \"" \o Unquoted(v) \o "%\"}"
        ends == f \o ": {_ilike: \"%" \o Unquoted(v) \o "\"}"
        contains == f \o ": {_ilike: \"%" \o Unquoted(v) \o "%\"}"
        compare(op) == f \o ": {" \o op \o ": " \o v \o "}"
    IN  CASE suffix \in {"_not_starts_with_nocase", "_not_starts_with"} ->
               "_not: {" \o starts \o "}"
          [] suffix \in {"_not_ends_with_nocase", "_not_ends_with"} ->
               "_not: {" \o ends \o "}"
          [] suffix \in {"_not_contains_nocase", "_not_contains"} ->
               "_not: {" \o contains \o "}"
          [] suffix \in {"_starts_with_nocase", "_starts_with"} -> starts
          [] suffix \in {"_ends_with_nocase", "_ends_with"} -> ends
          [] suffix \in {"_contains_nocase", "_contains"} -> contains
          [] suffix = "_not_in" -> compare("_nin")
          [] suffix = "_not" -> compare("_neq")
          [] suffix \in {"_gte", "_lte", "_gt", "_lt", "_in"} -> compare(suffix)

ApplicableSuffixes(key) == {s \in SupportedSuffixes : EndsWith(key, s)}

LongestSuffix(key) ==
    CHOOSE s \in ApplicableSuffixes(key) :
       \A t \in ApplicableSuffixes(key) : Len(t) <= Len(s)

(* C3: a key that ends with a supported operator suffix compiles to        *)
(* exactly the table's condition for the longest supported suffix the key  *)
(* ends with, the field being the key without that suffix.                 *)
C3_LongestSuffixFromTable ==
    (pc = "returned" /\ call.fn = "convert_basic_filter_to_hasura_condition"
     /\ ApplicableSuffixes(call.key) # {})
    => ret = Ok(TableCondition(
                  LongestSuffix(call.key),
                  Slice(call.key, 0, Len(call.key) - Len(LongestSuffix(call.key))),
                  call.value))

C3_Witness ==
    /\ pc = "returned"
    /\ call.fn = "convert_basic_filter_to_hasura_condition"
    /\ call.key = "is_not_in"
    /\ ret = Ok("is: {_nin: [1, 2]}")

SelectedAsNested(items, field) ==
    \E n \in 1 .. Len(items) : items[n].name = field /\ items[n].body # ""

SelectedAsScalar(items, field) ==
    \E n \in 1 .. Len(items) : items[n].name = field /\ items[n].body = ""

(* C8: a key without operator suffix whose value is a simple scalar        *)
(* compiles to `key: {id: {_eq: v}}` when the selection set selects the    *)
(* key as a nested object and to `key: {_eq: v}` when it selects the key   *)
(* as a scalar; chainId, and a value beginning with `{`, `[` or `$`,       *)
(* compile to `key: {_eq: v}` whatever the selection set.                  *)
C8_NestedEntityHeuristic ==
    (pc = "returned" /\ call.fn = "convert_basic_filter_to_hasura_condition"
     /\ ApplicableSuffixes(call.key) = {}
     /\ ~EndsWith(call.key, "_containsAny") /\ ~EndsWith(call.key, "_containsAll"))
    => LET plain == Ok(call.key \o ": {_eq: " \o call.value \o "}")
           by_id == Ok(call.key \o ": {id: {_eq: " \o call.value \o "}}")
       IN  IF \/ call.key = "chainId"
              \/ \E c \in {"{", "[", "$"} : StartsWith(Trim(call.value), c)
           THEN ret = plain
           ELSE /\ SelectedAsNested(call.items, call.key) => ret = by_id
                /\ SelectedAsScalar(call.items, call.key) => ret = plain

C8_Witness ==
    /\ pc = "returned"
    /\ call.fn = "convert_basic_filter_to_hasura_condition"
    /\ call.key = "pair"
    /\ call.value = "\"0\""
    /\ SelectedAsNested(call.items, "pair")
    /\ ret = Ok("pair: {id: {_eq: \"0\"}}")

-----------------------------------------------------------------------------
(* Properties of the where clause of one entity.                           *)

RECURSIVE RightNested(_, _)
RightNested(path, condition) ==
    IF path = <<>> THEN condition
    ELSE Head(path) \o ": {" \o RightNested(Tail(path), condition) \o "}"

(* C4: a filter nested n >= 2 levels deep, p1: {p2: {.. {leaf}}}, compiles *)
(* to the right-nested object p1: {p2: {.. {<condition of the leaf>}}}:    *)
(* every key is one path segment, no key has a dot, and every segment is   *)
(* there once.                                                             *)
C4_NestedFilterIsRightNested ==
    (pc = "returned" /\ call.fn = "convert_filters_to_where_clause"
     /\ call.path # <<>>)
    => /\ ret.where_clause
            = Ok("where: {" \o RightNested(call.path, call.leaf) \o "}")
       /\ ~Contains(ret.where_clause.val, ".")

(* The entries of the text of an object or array body: the pieces between  *)
(* the commas that are outside every inner object and array.  An entry is  *)
(* named by the index of the comma before it (-1 for the first one).       *)
NestingAt(text, i) ==
    Cardinality({j \in 0 .. (i - 1) : Char(text, j) \in {"{", "["}})
    - Cardinality({j \in 0 .. (i - 1) : Char(text, j) \in {"}", "]"}})

EntryStarts(text) ==
    IF text = "" THEN {}
    ELSE {-1} \cup {i \in Indices(text) : Char(text, i) = "," /\ NestingAt(text, i) = 0}

Entry(text, start) ==
    Trim(Slice(text, start + 1,
               MinOr({i \in EntryStarts(text) : i > start}, Len(text))))

Entries(text) == {Entry(text, start) : start \in EntryStarts(text)}

(* What is between the opening delimiter that ends the prefix and the last *)
(* character of the entry.                                                 *)
BodyOf(entry, prefix) == Slice(entry, Len(prefix), Len(entry) - 1)

(* The bodies of the objects found under the path of keys from the object  *)
(* body text.                                                              *)
RECURSIVE ObjectsAt(_, _)
ObjectsAt(text, path) ==
    IF path = <<>> THEN {text}
    ELSE UNION {ObjectsAt(BodyOf(entry, Head(path) \o ": {"), Tail(path)) :
                  entry \in {e \in Entries(text) : StartsWith(e, Head(path) \o ": {")}}

RECURSIVE SplitPath(_)
SplitPath(dotted) ==
    IF dotted = "" THEN <<>>
    ELSE IF Find(dotted, ".") < 0 THEN <<dotted>>
    ELSE <<Slice(dotted, 0, Find(dotted, "."))>>
         \o SplitPath(SliceFrom(dotted, Find(dotted, ".") + 1))

(* The filters of the map that sit directly under the dotted parent path   *)
(* (the top level is the empty path), by their own key.                    *)
FiltersUnder(params, parent) ==
    LET prefix == IF parent = "" THEN "" ELSE parent \o "."
        keys == {k \in DOMAIN params \ reserved_arguments :
                   /\ StartsWith(k, prefix)
                   /\ Find(SliceFrom(k, Len(prefix)), ".") < 0}
    IN  [c \in {SliceFrom(k, Len(prefix)) : k \in keys} |-> params[prefix \o c]]

ParentsOf(params) ==
    {""} \cup {Slice(k, 0, RFind(k, ".")) :
                 k \in {d \in DOMAIN params : Find(d, ".") >= 0}}

SharingBase(filters) ==
    {k \in DOMAIN filters :
       \E other \in DOMAIN filters \ {k} : BaseField(other) = BaseField(k)}

(* In the object body text, the conditions of the filters that share a     *)
(* base field are the elements of one `_and` array and none is an entry of *)
(* the object itself.                                                      *)
SharedBaseUnderAnd(text, filters, fields) ==
    LET condition(k) ==
            convert_basic_filter_to_hasura_condition(
                k, filters[k], fields.nested_fields, fields.regular_fields).val
        arrays == {start \in EntryStarts(text) :
                     StartsWith(Entry(text, start), "_and: [")}
    IN  SharingBase(filters) # {} =>
          /\ Cardinality(arrays) = 1
          /\ \A start \in arrays :
                Entries(BodyOf(Entry(text, start), "_and: ["))
                  = {"{" \o condition(k) \o "}" : k \in SharingBase(filters)}
          /\ \A k \in SharingBase(filters) : condition(k) \notin Entries(text)

(* C9: when several filters, at top level or under one nested parent,      *)
(* share a base field (the key up to its first `_`), their conditions are  *)
(* all in one `_and: [ {..}, {..} ]` array of that object and none of them *)
(* is a key of the object itself.                                          *)
C9_SharedBaseFieldUnderAnd ==
    (pc = "returned" /\ call.fn = "convert_filters_to_where_clause"
     /\ ret.where_clause.tag = "Ok")
    => \A parent \in ParentsOf(ret.params) :
          LET objects == ObjectsAt(BodyOf(ret.where_clause.val, "where: {"),
                                   SplitPath(parent))
              info == extract_field_info_from_selection_recursive(
                          SelectionText(call.items))
              fields == IF parent = "" THEN info
                        ELSE IF parent \in DOMAIN info.nested_entity_info
                        THEN info.nested_entity_info[parent]
                        ELSE NoFields
          IN  SharingBase(FiltersUnder(ret.params, parent)) # {} =>
                /\ objects # {}
                /\ \A text \in objects :
                      SharedBaseUnderAnd(text, FiltersUnder(ret.params, parent), fields)

C9_Witness ==
    /\ pc = "returned"
    /\ call.fn = "convert_filters_to_where_clause"
    /\ DOMAIN ret.params = {"amount_gt", "amount_lte"}
    /\ ret.where_clause.tag = "Ok"
    /\ Contains(ret.where_clause.val, "_and: [{amount: {_")

(* C10: filters F wrapped in `where: {F}` parse to the same argument map   *)
(* as F given as direct arguments, no key of it carries a `where.` prefix, *)
(* and the where clause compiled from it is one the direct form compiles   *)
(* to.                                                                     *)
C10_WhereWrapperIsTransparent ==
    (pc \in {"parsed", "returned"} /\ call.fn = "convert_filters_to_where_clause"
     /\ call.form = "where")
    => /\ ret.params = parse_graphql_params(call.filters, EmptyMap)
       /\ \A k \in DOMAIN ret.params : ~StartsWith(k, "where")
       /\ pc = "returned" =>
            LET info == extract_field_info_from_selection_recursive(
                            SelectionText(call.items))
            IN  ret.where_clause
                  \in convert_filters_to_where_clause(
                          parse_graphql_params(call.filters, EmptyMap),
                          info.nested_fields, info.regular_fields,
                          info.nested_entity_info)

C10_Witness ==
    /\ pc = "returned"
    /\ call.fn = "convert_filters_to_where_clause"
    /\ call.form = "where"
    /\ DOMAIN ret.params = {"name_contains", "pair.id_gt"}
    /\ ret.where_clause.tag = "Ok"
    /\ ret.where_clause.val # ""


(* C11: a nested object filter `where: {a: {b: v}}` parses to exactly the  *)
(* map with the one entry "a.b" |-> v, which is also what the dotted       *)
(* argument `a.b: v` parses to; compiling either gives the same where      *)
(* clause; and flattening a map that has no `where` key returns that map.  *)
C11_NestedEqualsDottedPath ==
    (pc \in {"parsed", "returned"} /\ call.fn = "convert_filters_to_where_clause")
    => /\ "where" \notin DOMAIN ret.params
          => flatten_where_map(ret.params) = {ret.params}
       /\ (call.form = "where" /\ call.path # <<>>)
          => \E leaf \in Leaves :
               /\ call.filters = NestedArgument(call.path, leaf.text)
               /\ LET colon == Find(leaf.text, ":")
                      key == Join(call.path, ".") \o "." \o Slice(leaf.text, 0, colon)
                      value == Trim(SliceFrom(leaf.text, colon + 1))
                      dotted == parse_graphql_params(key \o ": " \o value, EmptyMap)
                      info == extract_field_info_from_selection_recursive(
                                  SelectionText(call.items))
                  IN  /\ ret.params = Insert(EmptyMap, key, value)
                      /\ dotted = ret.params
                      /\ pc = "returned"
                         => convert_filters_to_where_clause(
                                dotted, info.nested_fields, info.regular_fields,
                                info.nested_entity_info) = {ret.where_clause}

C11_Witness ==
    /\ pc = "returned"
    /\ call.fn = "convert_filters_to_where_clause"
    /\ call.arguments = "where: {a: {d_gt: 3}}"
    /\ ret.params = Insert(EmptyMap, "a.d_gt", "3")
    /\ ret.where_clause = Ok("where: {a: {d: {_gt: 3}}}")

(* C12: a query whose text contains `_meta` is answered from substring     *)
(* tests alone, whatever the chain id and the other entities in it: no     *)
(* fragment or entity is extracted, and the result is ComplexMetaQuery     *)
(* when the text contains one of `block { hash`, `block { parentHash`,     *)
(* `block { timestamp`, `deployment`, `hasIndexingErrors`, else the fixed  *)
(* chain_metadata query when it contains `_meta { block { number } }`,     *)
(* else ComplexMetaQuery.                                                  *)
C12_MetaBySubstringOnly ==
    (pc = "done" /\ payload.has_query /\ payload.is_string
     /\ Contains(payload.query, "_meta"))
    => /\ fragments = "" /\ entities = <<>> /\ converted_entities = <<>>
       /\ result =
            IF \/ Contains(payload.query, "block { hash")
               \/ Contains(payload.query, "block { parentHash")
               \/ Contains(payload.query, "block { timestamp")
               \/ Contains(payload.query, "deployment")
               \/ Contains(payload.query, "hasIndexingErrors")
            THEN [tag |-> "ComplexMetaQuery", val |-> ""]
            ELSE IF Contains(payload.query, "_meta { block { number } }")
            THEN [tag |-> "Ok",
                  val |-> "query {\n  chain_metadata {\n    latest_fetched_block_number\n  }\n}"]
            ELSE [tag |-> "ComplexMetaQuery", val |-> ""]

(* The simple pattern next to another entity, with a chain id supplied.    *)
C12_Witness ==
    /\ pc = "done"
    /\ payload.query = "query { _meta { block { number } } streams(first: 5) { id } }"
    /\ chain_id = Some("1")
    /\ result.tag = "Ok"
    /\ Contains(result.val, "chain_metadata")
    /\ ~Contains(result.val, "Stream")

(* The keys of the argument map that belong to the unsupported family.     *)
UnsupportedKeys(params) ==
    {k \in DOMAIN params : EndsWith(k, "_containsAny") \/ EndsWith(k, "_containsAll")}

(* C13: when the arguments hold a filter whose key ends in `_containsAny`  *)
(* or `_containsAll`, compiling them fails with UnsupportedFilter carrying *)
(* that filter's path: the key as written at the top level, the full       *)
(* flattened path inside a nested object filter.                           *)
C13_UnsupportedFilterCarriesPath ==
    (pc = "returned" /\ call.fn = "convert_filters_to_where_clause"
     /\ UnsupportedKeys(ret.params) # {})
    => /\ ret.where_clause.tag = "UnsupportedFilter"
       /\ ret.where_clause.val \in UnsupportedKeys(ret.params)

(* The entity invocations of the call that cannot be compiled.             *)
FailingEntities ==
    {n \in 1 .. Len(entities) :
       \A r \in ConvertEntity(entities[n], chain_id) : r.tag # "Ok"}

(* C14: translation is all-or-nothing.  When compiling one of the entity   *)
(* invocations of the query fails, the call returns the error of a failing *)
(* invocation and none of the text translated for the other invocations;   *)
(* when the call succeeds, every invocation was translated and its text is *)
(* in the result.                                                          *)
C14_AllOrNothing ==
    (pc = "done" /\ payload.has_query /\ payload.is_string
     /\ ~Contains(payload.query, "_meta"))
    => /\ FailingEntities # {}
          => /\ result.tag # "Ok"
             /\ \E n \in FailingEntities : result \in ConvertEntity(entities[n], chain_id)
             /\ \A n \in 1 .. Len(converted_entities) :
                  ~Contains(result.val, converted_entities[n])
       /\ result.tag = "Ok"
          => /\ Len(converted_entities) = Len(entities)
             /\ \A n \in 1 .. Len(converted_entities) :
                  Contains(result.val, converted_entities[n])

(* The last of two invocations has an unsupported filter; the first had    *)
(* been translated when the call failed.                                   *)
C14_Witness ==
    /\ pc = "done"
    /\ payload.query = "query { streams { id } assets(tags_containsAny: [1]) { id } }"
    /\ Len(entities) = 2
    /\ Len(converted_entities) = 1
    /\ FailingEntities = {2}
    /\ result = UnsupportedFilter("tags_containsAny")

(* C15: convert_subgraph_to_hyperindex returns MissingField("query") for a *)
(* payload without a `query` member, InvalidQueryFormat for a `query`      *)
(* member that is not a string, and, when it succeeds, an object whose     *)
(* only member is `query`, holding the translated text.                    *)
C15_PayloadErrorsAndResponseShape ==
    pc = "done"
    => /\ ~payload.has_query => (ret.tag = "MissingField" /\ ret.val = "query")
       /\ (payload.has_query /\ ~payload.is_string) => ret.tag = "InvalidQueryFormat"
       /\ ret.tag = "Ok" <=> result.tag = "Ok"
       /\ ret.tag = "Ok"
          => /\ payload.has_query /\ payload.is_string
             /\ DOMAIN ret.val = {"query"}
             /\ ret.val.query = result.val

C15_Witness ==
    /\ pc = "done"
    /\ payload.has_query /\ payload.is_string
    /\ payload.query = "query { streams(first: 10) { id name } }"
    /\ ret.tag = "Ok"
    /\ DOMAIN ret.val = {"query"}
    /\ ret.val.query = "query {\n  Stream(limit: 10) {\n    id name\n  }\n}"

(* The `fragment .. { .. }` blocks of a query text from index `from` on,   *)
(* in the order of the text: each runs from the word `fragment ` to the    *)
(* brace that closes the first `{` after it.                               *)
RECURSIVE FragmentBlocksFrom(_, _)
FragmentBlocksFrom(text, from) ==
    LET rel == Find(SliceFrom(text, from), "fragment ")
        start == from + rel
        open == start + Find(SliceFrom(text, start), "{")
        close == MatchClose(text, open + 1, "{", "}")
    IN  IF rel < 0 \/ open < start \/ close >= Len(text) THEN <<>>
        ELSE <<[header |-> Slice(text, start, open + 1),
                body |-> Slice(text, open + 1, close)]>>
             \o FragmentBlocksFrom(text, close + 1)

(* A text without its parenthesized parts (no string literals in it).      *)
WithoutArguments(text) ==
    LET depth(i) == Cardinality({j \in 0 .. (i - 1) : Char(text, j) = "("})
                    - Cardinality({j \in 0 .. (i - 1) : Char(text, j) = ")"})
        kept == SelectSeq([n \in 1 .. Len(text) |-> n - 1],
                          LAMBDA i : Char(text, i) # "(" /\ depth(i) = 0)
    IN  Join([n \in 1 .. Len(kept) |-> Char(text, kept[n])], "")

FragmentSpreads == {"...F", "...G"}

(* The output starts with the given fragment texts, one per line, followed *)
(* by the translated operation, and has every spread of the input.         *)
FragmentsAhead(texts) ==
    /\ StartsWith(result.val, Join(texts, "\n") \o "\nquery {\n")
    /\ Occurrences(result.val, "fragment ") = Len(texts)
    /\ \A spread \in FragmentSpreads :
         Occurrences(result.val, spread) = Occurrences(payload.query, spread)

TranslatedWithFragments ==
    /\ pc = "done"
    /\ payload.has_query /\ payload.is_string
    /\ result.tag = "Ok"
    /\ FragmentBlocksFrom(payload.query, 0) # <<>>

C17_OneInvocationPerFieldInOrder ==
    (pc = "done" /\ payload.has_query /\ payload.is_string /\ result.tag = "Ok")
    => \A fields \in FieldLists :
         payload.query = Operation(FieldTexts(fields))
         => /\ Len(entities) = Len(fields)
            /\ Len(converted_entities) = Len(fields)
            /\ \A n \in 1 .. Len(fields) :
                 /\ entities[n].name = fields[n].name
                 /\ StartsWith(converted_entities[n],
                               "  " \o (IF IsPrimaryKeyLookup(entities[n])
                                        THEN fields[n].name \o "_by_pk"
                                        ELSE singularize_and_capitalize(fields[n].name)))
            /\ result.val = "query {\n" \o Join(converted_entities, "\n") \o "\n}"

(* Plural entity names: those the singularizer shortens.                   *)
IsPlural(entity_name) == EndsWith(entity_name, "s") /\ Len(entity_name) > 1

(* C18: the key the response carries for an entity e (the singularized,    *)
(* capitalized name, or `e_by_pk` for a primary-key lookup) is mapped back *)
(* to exactly e by the response reshaping; in particular                   *)
(* pluralize_lowercase(singularize_and_capitalize(e)) = e for a plural e.  *)
C18_NamingRoundTrip ==
    (pc = "reshaped" /\ call.fn = "convert_main_query")
    => /\ ret.new_key = call.entity
       /\ IsPlural(call.entity)
          => pluralize_lowercase(singularize_and_capitalize(call.entity)) = call.entity

(* The name with its first character uppercased.                           *)
Capitalized(name) ==
    IF name = "" THEN ""
    ELSE (IF Contains(Lowercase, Char(name, 0))
          THEN Char(Uppercase, Find(Lowercase, Char(name, 0)))
          ELSE Char(name, 0)) \o SliceFrom(name, 1)

(* The name without its last n characters.                                 *)
DropLast(name, n) == SubSeq(name, 1, Len(name) - n)

(* C19: singularize_and_capitalize applies, in this order: the irregular   *)
(* table, matched without regard to case (`tranches` gives `Tranche`);     *)
(* else `ies` at the end of a name longer than 3 characters becomes `y`;   *)
(* else a name ending in ches, shes, xes, zes, sses, oes or ses loses its  *)
(* last two characters; else a trailing `s` is dropped; else the name is   *)
(* unchanged; and the first character of the outcome is uppercased.        *)
C19_SingularizeRuleOrder ==
    (pc \in {"emitted", "reshaped"} /\ call.fn = "convert_main_query")
    => LET e == call.entity
       IN  /\ ret.entity_cap =
                IF ToLowercase(e) = "tranches" THEN "Tranche"
                ELSE IF EndsWith(e, "ies") /\ Len(e) > 3
                THEN Capitalized(DropLast(e, 3) \o "y")
                ELSE IF \/ EndsWith(e, "ches") \/ EndsWith(e, "shes")
                        \/ EndsWith(e, "xes") \/ EndsWith(e, "zes")
                        \/ EndsWith(e, "sses") \/ EndsWith(e, "oes")
                        \/ EndsWith(e, "ses")
                THEN Capitalized(DropLast(e, 2))
                ELSE IF EndsWith(e, "s") THEN Capitalized(DropLast(e, 1))
                ELSE Capitalized(e)
           /\ e = "batches" => ret.entity_cap = "Batch"
           /\ e = "streams" => ret.entity_cap = "Stream"
           /\ e = "users" => ret.entity_cap = "User"
           /\ e = "stream" => ret.entity_cap = "Stream"
           /\ e = "tranches" => ret.entity_cap = "Tranche"

C19_Witness ==
    /\ pc = "emitted"
    /\ call.entity = "batches"
    /\ ~call.primary_key
    /\ ret.entity_cap = "Batch"
    /\ ret.field = "Batch"

(* The value of an argument when it is present and does not start with     *)
(* `$`, as a sequence of at most one text.                                 *)
LiteralArgument(params, name, label) ==
    IF name \in DOMAIN params /\ ~StartsWith(params[name], "$")
    THEN <<label \o params[name]>> ELSE <<>>

(* The order_by argument: orderBy with orderDirection, `asc` when absent,  *)
(* unless orderBy is absent or one of the two starts with `$`.             *)
OrderByArgument(params) ==
    LET direction == IF "orderDirection" \in DOMAIN params
                     THEN params["orderDirection"] ELSE "asc"
    IN  IF /\ "orderBy" \in DOMAIN params
           /\ ~StartsWith(params["orderBy"], "$")
           /\ ~StartsWith(direction, "$")
        THEN <<"order_by: {" \o params["orderBy"] \o ": " \o direction \o "}">>
        ELSE <<>>

(* The text is `name`, the arguments in parentheses unless there is none,  *)
(* and the selection; the last argument is a where object exactly when     *)
(* has_where.                                                              *)
EmittedWithArguments(text, name, leading, has_where, selection) ==
    LET head == "  " \o name
        tail == " " \o selection
        middle == Slice(text, Len(head), Len(text) - Len(tail))
        listed == Join(leading, ", ")
    IN  /\ StartsWith(text, head)
        /\ EndsWith(text, tail)
        /\ Len(text) >= Len(head) + Len(tail)
        /\ IF has_where
           THEN /\ StartsWith(middle, "(" \o listed
                                      \o (IF leading = <<>> THEN "" ELSE ", ")
                                      \o "where: {")
                /\ EndsWith(middle, "})")
                /\ Occurrences(middle, "where: ") = 1
           ELSE middle = (IF leading = <<>> THEN "" ELSE "(" \o listed \o ")")

(* C20: a non-primary-key entity is emitted with its arguments in the      *)
(* order limit, offset, order_by, where, whatever their order in the       *)
(* input: limit and offset only for a `first` and `skip` that are present  *)
(* and do not start with `$`, order_by only for an orderBy that is present *)
(* when neither it nor the direction (default asc) starts with `$`, the    *)
(* where object only when a filter remains, and no parentheses when no     *)
(* argument remains.                                                       *)
C20_ArgumentOrder ==
    (pc = "done" /\ payload.has_query /\ payload.is_string /\ result.tag = "Ok")
    => \A n \in 1 .. Len(entities) :
         ~IsPrimaryKeyLookup(entities[n])
         => EmittedWithArguments(
                converted_entities[n],
                singularize_and_capitalize(entities[n].name),
                LiteralArgument(entities[n].params, "first", "limit: ")
                \o LiteralArgument(entities[n].params, "skip", "offset: ")
                \o OrderByArgument(entities[n].params),
                chain_id # None
                \/ DOMAIN entities[n].params
                   \ {"first", "skip", "orderBy", "orderDirection", "where"} # {},
                entities[n].selection)

(* All four arguments, given in the reverse of the order they are emitted  *)
(* in.                                                                     *)
C20_Witness ==
    /\ pc = "done"
    /\ chain_id = None
    /\ payload.query = Operation(<<Invocation("streams",
         "where: {name: \"x\"}, orderDirection: desc, orderBy: name, skip: 5, first: 10",
         "id name")>>)
    /\ result.tag = "Ok"
    /\ Contains(result.val,
         "Stream(limit: 10, offset: 5, order_by: {name: desc}, where: {name: {_eq: \"x\"}}) {")

-----------------------------------------------------------------------------
(* Further properties of one filter.                                       *)

(* A filter without operator suffix, with a simple scalar value, on a      *)
(* field other than chainId that the selection set does not select.        *)
UnselectedScalarFilter ==
    /\ pc = "returned"
    /\ call.fn = "convert_basic_filter_to_hasura_condition"
    /\ ApplicableSuffixes(call.key) = {}
    /\ ~EndsWith(call.key, "_containsAny") /\ ~EndsWith(call.key, "_containsAll")
    /\ call.key # "chainId"
    /\ \A c \in {"{", "[", "$"} : ~StartsWith(Trim(call.value), c)
    /\ ~SelectedAsNested(call.items, call.key)
    /\ ~SelectedAsScalar(call.items, call.key)

(* C21 as stated: such a filter is rewritten as the reference              *)
(* `field: {id: {_eq: v}}`, also when both field sets are empty.           *)
C21_AbsentFieldIsReference ==
    UnselectedScalarFilter
    => ret = Ok(call.key \o ": {id: {_eq: " \o call.value \o "}}")

(* C21, amended: such a filter is rewritten as the reference when the      *)
(* selection set selects some other field, and compiles to the plain       *)
(* equality `field: {_eq: v}` when both field sets are empty.              *)
C21_AbsentFieldUnlessNoContext ==
    UnselectedScalarFilter
    => ret = IF call.items = <<>>
             THEN Ok(call.key \o ": {_eq: " \o call.value \o "}")
             ELSE Ok(call.key \o ": {id: {_eq: " \o call.value \o "}}")

C21_Witness ==
    /\ UnselectedScalarFilter
    /\ call.key = "pair"
    /\ call.value = "\"0\""
    /\ call.items = <<>>
    /\ ret = Ok("pair: {_eq: \"0\"}")

-----------------------------------------------------------------------------
(* Further properties of the where clause of one entity.                   *)

(* C22: for a filter path of three segments, `pair.token.<field>`, the     *)
(* leaf is compiled with the field sets of `token` as selected inside      *)
(* `pair`: to the plain equality when that selection has the field as a    *)
(* scalar, to the reference by id when it has it as a nested object,       *)
(* whatever a top-level `token` selects.                                   *)
C22_LeafUsesParentAtItsLevel ==
    (pc = "returned" /\ call.fn = "convert_filters_to_where_clause"
     /\ call.form = "deep")
    => ret.where_clause
         = Ok("where: {"
              \o RightNested(call.parents,
                             IF call.selected_as = "nested"
                             THEN call.field \o ": {id: {_eq: " \o call.value \o "}}"
                             ELSE call.field \o ": {_eq: " \o call.value \o "}")
              \o "}")

-----------------------------------------------------------------------------
(* Further properties of a call of convert_subgraph_to_hyperindex.         *)

(* C23: a delimiter inside a string literal does not take part in          *)
(* delimiter matching: an entity whose argument value is a string such as  *)
(* ")" or "}" is extracted with its whole argument text and selection set. *)
C23_DelimitersInStringsAreInert ==
    (pc = "done" /\ payload.has_query /\ payload.is_string)
    => \A value \in DelimiterStrings :
         payload.query = Operation(<<Invocation("streams", "name: " \o value, "id name")>>)
         => /\ Len(entities) = 1
            /\ entities[1].name = "streams"
            /\ DOMAIN entities[1].params = {"name"}
            /\ entities[1].params["name"] = value
            /\ entities[1].selection = "{\n    id name\n  }"
            /\ result.tag = "Ok"
            /\ Contains(result.val, "name: {_eq: " \o value \o "}")

-----------------------------------------------------------------------------
(* The argument parser on its own: one argument list, written once with    *)
(* commas and once with newlines between its `name: value` pairs.          *)

(* Pairs as written, each with the entries it contributes to the map; the  *)
(* values hold commas and newlines inside braces, brackets and strings.    *)
ParamPairs ==
    {[text |-> "first: 10", entries |-> Insert(EmptyMap, "first", "10")],
     [text |-> "skip : 5", entries |-> Insert(EmptyMap, "skip", "5")],
     [text |-> "orderBy: name", entries |-> Insert(EmptyMap, "orderBy", "name")],
     [text |-> "_x: y", entries |-> Insert(EmptyMap, "_x", "y")],
     [text |-> "tag: \"a, b\"", entries |-> Insert(EmptyMap, "tag", "\"a, b\"")],
     [text |-> "note: \"a\n b: c\"", entries |-> Insert(EmptyMap, "note", "\"a\n b: c\"")],
     [text |-> "quote: \"a\\\", b\"", entries |-> Insert(EmptyMap, "quote", "\"a\\\", b\"")],
     [text |-> "id_in: [1, 2]", entries |-> Insert(EmptyMap, "id_in", "[1, 2]")],
     [text |-> "ids: [1\n 2]", entries |-> Insert(EmptyMap, "ids", "[1\n 2]")],
     [text |-> "where: {a: 1, b: \"}\"}",
      entries |-> Insert(Insert(EmptyMap, "a", "1"), "b", "\"}\"")],
     [text |-> "pair: {c: 1\n d: [2, 3]}",
      entries |-> Insert(Insert(EmptyMap, "pair.c", "1"), "pair.d", "[2, 3]")]}

NewlineSeparators == {"\n", "\n  ", "\r\n", " \n\n\t"}

ParamCalls ==
    {[fn |-> "parse_graphql_params", pairs |-> pairs, newline |-> newline] :
       pairs \in UNION {Orders(chosen) :
                          chosen \in {c \in SUBSET ParamPairs :
                                        Cardinality(c) \in 1 .. MaxFilters}},
       newline \in NewlineSeparators}

ParamInit ==
    /\ Idle
    /\ remaining = ""
    /\ fragments = ""
    /\ start_idx = -1
    /\ open_idx = -1
    /\ call \in ParamCalls
    /\ pc = "param_call"
    /\ ret = NoResult

ParamTexts(pairs) == [n \in 1 .. Len(pairs) |-> pairs[n].text]

ParseCommaSeparated ==
    /\ pc = "param_call"
    /\ ret' = [commas |-> parse_graphql_params(Join(ParamTexts(call.pairs), ", "),
                                               EmptyMap),
               newlines |-> EmptyMap]
    /\ pc' = "commas_parsed"
    /\ UnitUnchanged

ParseNewlineSeparated ==
    /\ pc = "commas_parsed"
    /\ ret' = [ret EXCEPT !.newlines =
                 parse_graphql_params(Join(ParamTexts(call.pairs), call.newline),
                                      EmptyMap)]
    /\ pc' = "returned"
    /\ UnitUnchanged

ParamNext == ParseCommaSeparated \/ ParseNewlineSeparated

ParamSpec == ParamInit /\ [][ParamNext]_vars

RECURSIVE EntriesOf(_)
EntriesOf(pairs) ==
    IF pairs = <<>> THEN EmptyMap
    ELSE InsertAll(EntriesOf(SubSeq(pairs, 1, Len(pairs) - 1)),
                   pairs[Len(pairs)].entries, "")

(* C24: an argument list whose pairs are separated only by newlines parses *)
(* to the same map as the same pairs separated by commas, and that map     *)
(* holds each pair's entries whole: no comma or newline inside braces,     *)
(* brackets or a string literal splits a pair.                             *)
C24_NewlinesSeparateLikeCommas ==
    (pc = "returned" /\ call.fn = "parse_graphql_params")
    => /\ ret.newlines = ret.commas
       /\ ret.commas = EntriesOf(call.pairs)

C24_Witness ==
    /\ pc = "returned"
    /\ call.fn = "parse_graphql_params"
    /\ Len(call.pairs) = 2
    /\ call.pairs[1].text = "pair: {c: 1\n d: [2, 3]}"
    /\ call.pairs[2].text = "tag: \"a, b\""
    /\ call.newline = "\n  "
    /\ DOMAIN ret.newlines = {"pair.c", "pair.d", "tag"}

-----------------------------------------------------------------------------
(* The order of the conditions in the where object.                        *)

(* C25: in the emitted where object the conditions of distinct base fields *)
(* appear in ascending order of base field name, except that the chainId   *)
(* condition is the first entry of the where object.                       *)
C25_BaseFieldsAscendingChainIdFirst ==
    (/\ pc = "returned"
     /\ call.fn = "convert_filters_to_where_clause"
     /\ call.form \in {"direct", "where"}
     /\ ret.where_clause.tag = "Ok"
     /\ ret.where_clause.val # "")
    => LET text == ret.where_clause.val
           keys == {k \in DOMAIN ret.params \ reserved_arguments : Find(k, ".") < 0}
           fields == {BaseField(k) : k \in keys}
           at(field) == Find(text, field \o ": {")
       IN  /\ \A f \in fields, g \in fields :
                (f # g /\ (f = "chainId" \/ (g # "chainId" /\ StrLess(f, g))))
                => (at(f) >= 0 /\ at(f) < at(g))
           /\ "chainId" \in fields => StartsWith(text, "where: {chainId: ")

-----------------------------------------------------------------------------
(* The HTTP handlers handle_query and handle_chain_query: the call of      *)
(* convert_subgraph_to_hyperindex is followed step by step as above; then  *)
(* the handler forwards the converted query and answers.  `call` holds the *)
(* handler's environment, the requests it has sent, the reply of the       *)
(* Hyperindex endpoint and the answer to the client.                       *)

HandlerQueries ==
    {"query { streams(first: 10) { id name } }",
     "query { stream(id: \"1\") { id } }",
     "query Q { streams(first: 1) { ...F } } fragment F on Stream { id name }",
     "{ _meta { block { number } } }",
     "{ _meta { block { hash } } }",
     "query { streams(tags_containsAny: [1]) { id } }",
     "query } {",
     "streams"}

HandlerPayloads ==
    {[has_query |-> TRUE, is_string |-> TRUE, query |-> q] : q \in HandlerQueries}
    \cup {[has_query |-> TRUE, is_string |-> FALSE, query |-> ""],
          [has_query |-> FALSE, is_string |-> FALSE, query |-> ""]}

(* Replies of the Hyperindex endpoint: a transport or decoding error, or a *)
(* JSON object with or without the members `errors` and `data`.            *)
TransportError == [tag |-> "Err", errors |-> None, data |-> None]

HyperindexReplies ==
    {TransportError}
    \cup {[tag |-> "Ok", errors |-> errors, data |-> data] :
            errors \in {None, Some("[{message: \"boom\"}]"), Some("null")},
            data \in {None, Some([k \in {"Stream"} |-> "rows"]),
                      Some([k \in {"stream_by_pk", "Batch"} |-> "rows"])}}

NoAnswer == [status |-> 0]

HandlerInit ==
    /\ payload \in HandlerPayloads
    /\ \E fn \in {"handle_query", "handle_chain_query"},
          hyperindex_url \in BOOLEAN, subgraph_debug_url \in BOOLEAN :
          /\ chain_id = IF fn = "handle_query" THEN None ELSE Some("5")
          /\ call = [fn |-> fn, hyperindex_url |-> hyperindex_url,
                     subgraph_debug_url |-> subgraph_debug_url,
                     hyperindex_requests |-> <<>>, subgraph_requests |-> <<>>,
                     reply |-> NoResult, answer |-> NoAnswer]
    /\ pc = "start"
    /\ remaining = ""
    /\ fragments = ""
    /\ start_idx = -1
    /\ open_idx = -1
    /\ entities = <<>>
    /\ converted_entities = <<>>
    /\ result = NoResult
    /\ previous = NoResult
    /\ ret = NoResult

HandlerUnchanged ==
    UNCHANGED <<payload, chain_id, remaining, fragments, start_idx, open_idx,
                entities, converted_entities, result, previous, ret>>

(* The Display text of a ConversionError (thiserror's #[error] strings).   *)
ErrorMessage(e) ==
    IF e.tag = "InvalidQueryFormat" THEN "Invalid GraphQL query format"
    ELSE IF e.tag = "MissingField" THEN "Missing required field: " \o e.val
    ELSE IF e.tag = "UnsupportedFilter" THEN "Unsupported filter: " \o e.val
    ELSE "Complex _meta queries are not supported. Only _meta { block { number } } is currently available"

ConversionErrors ==
    {"InvalidQueryFormat", "MissingField", "UnsupportedFilter", "ComplexMetaQuery"}

(* maybe_fetch_subgraph_debug: without SUBGRAPH_DEBUG_URL nothing is sent; *)
(* with it the original payload goes to that endpoint, and a failure gives *)
(* None.                                                                   *)
SubgraphDebugOutcomes ==
    IF call.subgraph_debug_url
    THEN {[requests |-> Append(call.subgraph_requests, payload), response |-> r] :
            r \in {None, Some("subgraph reply")}}
    ELSE {[requests |-> call.subgraph_requests, response |-> None]}

(* The forwarding step done also when the conversion returned an error.    *)
ForwardRegardlessOfResult ==
    /\ pc = "done"
    /\ call.fn \in {"handle_query", "handle_chain_query"}
    /\ ret.tag # "Panic"
    /\ \E reply \in HyperindexReplies :
          call' = [call EXCEPT !.hyperindex_requests = Append(@, ret.val),
                               !.reply = reply]
    /\ pc' = "forwarded"
    /\ HandlerUnchanged

(* The Ok arm up to the reply: forward_to_hyperindex posts the converted   *)
(* query to HYPERINDEX_URL (and aborts when that is not set) and returns   *)
(* the reply or an error.                                                  *)
ForwardToHyperindex ==
    /\ pc = "done"
    /\ call.fn \in {"handle_query", "handle_chain_query"}
    /\ ret.tag = "Ok"
    /\ IF call.hyperindex_url
       THEN /\ \E reply \in HyperindexReplies :
                  call' = [call EXCEPT !.hyperindex_requests = Append(@, ret.val),
                                       !.reply = reply]
            /\ pc' = "forwarded"
       ELSE /\ pc' = "aborted"
            /\ UNCHANGED call
    /\ HandlerUnchanged

(* transform_response_to_subgraph_shape on the members of `data`: each key *)
(* is replaced by its transformed key; of two keys with the same           *)
(* transformed key the later one in the map's order is kept.               *)
TransformedData(data) ==
    [new_key \in {TransformedKey(k) : k \in DOMAIN data} |->
       LET sources == {k \in DOMAIN data : TransformedKey(k) = new_key}
       IN  data[CHOOSE k \in sources : \A other \in sources \ {k} : StrLess(other, k)]]

transform_response_to_subgraph_shape(resp) ==
    IF resp.data = None THEN resp
    ELSE [resp EXCEPT !.data = Some(TransformedData(resp.data[1]))]

(* The arms after forward_to_hyperindex returned: 502 with the reply's     *)
(* errors when it has an `errors` member, 200 with the reshaped reply when *)
(* it has none, 500 when the request failed.                               *)
AnswerReply ==
    /\ pc = "forwarded"
    /\ IF call.reply.tag = "Ok" /\ call.reply.errors = None
       THEN call' = [call EXCEPT !.answer =
                       [status |-> 200,
                        body |-> transform_response_to_subgraph_shape(call.reply)]]
       ELSE \E debug \in SubgraphDebugOutcomes :
              call' = [call EXCEPT
                         !.subgraph_requests = debug.requests,
                         !.answer =
                           IF call.reply.tag = "Ok"
                           THEN [status |-> 502,
                                 body |-> [errors |-> call.reply.errors[1],
                                           subgraphResponse |-> debug.response]]
                           ELSE [status |-> 500,
                                 body |-> [error |-> "Hyperindex request failed",
                                           subgraphResponse |-> debug.response]]]
    /\ pc' = "answered"
    /\ HandlerUnchanged

(* The Err arm: 400 with the error's message in `details`.                 *)
AnswerConversionError ==
    /\ pc = "done"
    /\ call.fn \in {"handle_query", "handle_chain_query"}
    /\ ret.tag \in ConversionErrors
    /\ \E debug \in SubgraphDebugOutcomes :
          call' = [call EXCEPT
                     !.subgraph_requests = debug.requests,
                     !.answer = [status |-> 400,
                                 body |-> [error |-> "Conversion failed",
                                           details |-> ErrorMessage(ret),
                                           chainId |-> chain_id,
                                           subgraphResponse |-> debug.response]]]
    /\ pc' = "answered"
    /\ HandlerUnchanged

(* The conversion aborted: the handler's task ends without an answer.      *)
HandlerAborts ==
    /\ pc = "done"
    /\ call.fn \in {"handle_query", "handle_chain_query"}
    /\ ret.tag = "Panic"
    /\ pc' = "aborted"
    /\ UNCHANGED call
    /\ HandlerUnchanged

HandlerNext ==
    \/ Start \/ FragmentFind \/ FragmentWalk \/ ConvertMain
    \/ ForwardToHyperindex \/ AnswerReply \/ AnswerConversionError \/ HandlerAborts

HandlerSpec == HandlerInit /\ [][HandlerNext]_vars

HandlerStatePc == {"start", "frag_find", "frag_walk", "convert_main", "done"}

(* The steps are in order and each is justified by the one before it.      *)
HandlerOrder ==
    /\ call.hyperindex_requests # <<>>
         => /\ pc \in {"forwarded", "answered"}
            /\ ret.tag = "Ok"
            /\ call.hyperindex_requests = <<ret.val>>
    /\ pc \in HandlerStatePc => call.answer = NoAnswer /\ call.reply = NoResult
    /\ (pc = "answered" /\ ret.tag # "Ok")
         => /\ ret.tag \in ConversionErrors
            /\ call.hyperindex_requests = <<>>
            /\ call.answer.status = 400
            /\ call.answer.body.details = ErrorMessage(ret)
    /\ (pc = "answered" /\ ret.tag = "Ok")
         => /\ call.reply # NoResult
            /\ call.answer.status \in {200, 500, 502}
            /\ call.answer.status = 200
                 <=> (call.reply.tag = "Ok" /\ call.reply.errors = None)
            /\ call.answer.status = 200
                 => /\ call.answer.body.errors = None
                    /\ call.reply.data = None => call.answer.body.data = None
                    /\ call.reply.data # None
                         => DOMAIN call.answer.body.data[1]
                              = {TransformedKey(k) : k \in DOMAIN call.reply.data[1]}
            /\ call.answer.status = 502
                 <=> (call.reply.tag = "Ok" /\ call.reply.errors # None)
            /\ call.answer.status = 502
                 => call.answer.body.errors = call.reply.errors[1]

(* A request goes out only in a step from the finished conversion, and an  *)
(* answer is given only in a step from the reply or from the failed        *)
(* conversion.                                                             *)
HandlerStep ==
    /\ call'.hyperindex_requests # call.hyperindex_requests
         => pc = "done" /\ ret.tag = "Ok" /\ pc' = "forwarded"
    /\ call'.answer # call.answer
         => /\ call.answer = NoAnswer
            /\ \/ pc = "forwarded"
               \/ pc = "done" /\ ret.tag \in ConversionErrors

(* C26: in the handlers the steps happen only in the order convert,        *)
(* forward, reshape: a request goes to the Hyperindex endpoint only after  *)
(* the conversion succeeded; a ConversionError is answered with 400 and    *)
(* its message in `details`, without forwarding; the reply is reshaped and *)
(* answered with 200 only when it has no `errors` member, else it is       *)
(* answered with 502 and the errors as received.                           *)
C26_ConvertForwardReshape == []HandlerOrder /\ [][HandlerStep]_vars

C26_Witness ==
    /\ pc = "answered"
    /\ call.fn = "handle_chain_query"
    /\ ret.tag = "Ok"
    /\ call.hyperindex_requests = <<ret.val>>
    /\ call.answer.status = 200
    /\ call.reply.data # None
    /\ DOMAIN call.reply.data[1] = {"stream_by_pk", "Batch"}
    /\ DOMAIN call.answer.body.data[1] = {"stream", "batches"}

-----------------------------------------------------------------------------
(* The keys of the where object.                                           *)

(* The pieces of `body` between the commas that are outside string         *)
(* literals, braces and brackets.                                          *)
TopLevelPieces(body) ==
    LET outside(i) == Cardinality({q \in 0 .. (i - 1) : Char(body, q) = "\""}) % 2 = 0
        count(i, c) == Cardinality({j \in 0 .. (i - 1) : Char(body, j) = c /\ outside(j)})
        commas == {i \in Indices(body) :
                     /\ Char(body, i) = "," /\ outside(i)
                     /\ count(i, "{") = count(i, "}")
                     /\ count(i, "[") = count(i, "]")}
        cuts == [n \in 1 .. Cardinality(commas) |->
                   CHOOSE c \in commas : Cardinality({d \in commas : d < c}) = n - 1]
    IN  [n \in 1 .. (Len(cuts) + 1) |->
           Trim(Slice(body,
                      IF n = 1 THEN 0 ELSE cuts[n - 1] + 1,
                      IF n > Len(cuts) THEN Len(body) ELSE cuts[n]))]

(* No object of the text `{...}` has two entries with the same key; the    *)
(* objects are the text itself, the object values of its entries and the   *)
(* objects in their array values.                                          *)
RECURSIVE DistinctKeys(_)
DistinctKeys(object) ==
    LET entries == TopLevelPieces(Slice(object, 1, Len(object) - 1))
        key(n) == Trim(Slice(entries[n], 0, Find(entries[n], ":")))
        value(n) == Trim(SliceFrom(entries[n], Find(entries[n], ":") + 1))
        elements(n) == TopLevelPieces(Slice(value(n), 1, Len(value(n)) - 1))
    IN  /\ \A m, n \in 1 .. Len(entries) : m # n => key(m) # key(n)
        /\ \A n \in 1 .. Len(entries) :
             /\ StartsWith(value(n), "{") => DistinctKeys(value(n))
             /\ StartsWith(value(n), "[")
                  => \A e \in 1 .. Len(elements(n)) :
                       StartsWith(elements(n)[e], "{") => DistinctKeys(elements(n)[e])

(* C27: the emitted where object never has two sibling entries with the    *)
(* same key, at any nesting level.                                         *)
C27_NoDuplicateSiblingKeys ==
    (/\ pc = "returned"
     /\ call.fn = "convert_filters_to_where_clause"
     /\ ret.where_clause.tag = "Ok"
     /\ ret.where_clause.val # "")
    => DistinctKeys(SliceFrom(ret.where_clause.val, Len("where: ")))

-----------------------------------------------------------------------------
(* The scope of the entity extractor.                                      *)

(* C28: only the top-level fields of the operation become entity           *)
(* invocations, each under its complete name: no identifier from inside an *)
(* argument list or selection set, and no part of a field name, is         *)
(* extracted or emitted as an entity.                                      *)
C28_OnlyTopLevelFieldsAreEntities ==
    (pc = "done" /\ payload.has_query /\ payload.is_string)
    => \A scoped \in ScopedQueries :
         payload.query = scoped.query
         => /\ \A n \in 1 .. Len(entities) : entities[n].name \in scoped.top_level
            /\ Len(converted_entities) <= Cardinality(scoped.top_level)

-----------------------------------------------------------------------------
(* The results of a call.                                                  *)

(* C29: for every input text the call returns Ok or one of the four        *)
(* ConversionError values; it never aborts on a slice whose start is       *)
(* beyond its end.                                                         *)
C29_ReturnsOkOrConversionError ==
    pc = "done" => result.tag \in {"Ok"} \cup ConversionErrors

(* C30: the translated query text holds no `$` variable reference: the     *)
(* operation is the anonymous `query { ... }` without variable             *)
(* definitions, and an argument whose value is a variable reference is     *)
(* left out of it.                                                         *)
C30_NoVariableReferenceInOutput ==
    (pc = "done" /\ result.tag = "Ok")
    => /\ ~Contains(result.val, "$")
       /\ Contains(result.val, "query {\n")
=============================================================================
